---------------------------- MODULE Spec2Model ----------------------------
(***************************************************************************)
(* Relational analysis of two versions of a binary (CodeHawk-Binary,       *)
(* chb/relational): instruction, function and application level.           *)
(*                                                                         *)
(* Python strings are modelled as sequences of character codes, so that    *)
(* string comparison, sorted(), int(s, 16) and hex(n) behave as in Python. *)
(***************************************************************************)
EXTENDS Integers, Sequences, FiniteSets, TLC

(***************************************************************************)
(* Bounds of the model                                                     *)
(***************************************************************************)
\* lowest numeric address of the address universe
AddrLo == 15
\* number of consecutive addresses in the universe (0xf, 0x10, 0x11, 0x12)
NumAddrs == 4
\* longest instruction encoding, in bytes
MaxBytes == 2
\* largest number of basic blocks of a function
MaxBlocks == 2
\* largest number of control flow edges of a function
MaxEdges == 1
\* largest number of CfgMatcher constructions followed
MaxMatcherCalls == 2
\* largest number of functions of an application
MaxFns == 2
\* largest number of runs of a function mapping strategy followed
MaxStrategyRuns == 2
\* instructions in a basic block
MaxInstrs == 2
\* tags and arguments of an indexed record
MaxTags == 3
MaxArgs == 5
\* lvalues or expressions a variable or expression lowers to
MaxLvals == 2
\* the literals and offsets simulated are 0 .. MaxLit and -MaxLit .. -1
MaxLit == 1
\* instructions simulated in one run
MaxSimSteps == 2
\* the memory offsets lowered are -1 .. MaxOffset
MaxOffset == 4
\* formal parameters a function declares
MaxFormals == 2
\* variables lowered as one list
MaxVars == 2

(***************************************************************************)
(* Python string and integer primitives                                    *)
(***************************************************************************)
\* character code of the hexadecimal digit d, as printed by hex()
DigitChar(d) == IF d < 10 THEN 48 + d ELSE 87 + d

\* value of a hexadecimal digit character (int(s, 16) accepts both cases)
DigitVal(c) ==
    IF c >= 48 /\ c <= 57 THEN c - 48
    ELSE IF c >= 97 /\ c <= 102 THEN c - 87
    ELSE c - 55

RECURSIVE HexDigits(_)
\* the digits of the natural number n, most significant first
HexDigits(n) ==
    IF n < 16 THEN << DigitChar(n) >>
    ELSE Append(HexDigits(n \div 16), DigitChar(n % 16))

\* Python hex(n): "0x.." or "-0x.."
hex(n) ==
    IF n < 0 THEN << 45, 48, 120 >> \o HexDigits(0 - n)
    ELSE << 48, 120 >> \o HexDigits(n)

RECURSIVE DigitsValue(_, _)
\* value of a digit string, accumulated left to right
DigitsValue(s, acc) ==
    IF s = << >> THEN acc
    ELSE DigitsValue(Tail(s), 16 * acc + DigitVal(Head(s)))

\* s without an optional "0x" prefix
StripPrefix(s) ==
    IF Len(s) >= 2 /\ s[1] = 48 /\ s[2] = 120 THEN SubSeq(s, 3, Len(s))
    ELSE s

\* Python int(s, 16)
int16(s) ==
    IF Len(s) >= 1 /\ s[1] = 45
    THEN 0 - DigitsValue(StripPrefix(Tail(s)), 0)
    ELSE DigitsValue(StripPrefix(s), 0)

RECURSIVE StrLess(_, _)
\* Python str.__lt__: lexicographic order on character codes
StrLess(s, t) ==
    IF t = << >> THEN FALSE
    ELSE IF s = << >> THEN TRUE
    ELSE IF Head(s) # Head(t) THEN Head(s) < Head(t)
    ELSE StrLess(Tail(s), Tail(t))

RECURSIVE sorted(_)
\* Python sorted() on a collection of distinct strings
sorted(S) ==
    IF S = {} THEN << >>
    ELSE LET m == CHOOSE x \in S : \A y \in S \ {x} : StrLess(x, y)
         IN << m >> \o sorted(S \ {m})

RECURSIVE sorted_list(_)
\* Python sorted() on a list of strings, duplicates kept
sorted_list(l) ==
    IF l = << >> THEN << >>
    ELSE LET i == CHOOSE i \in 1 .. Len(l) :
                      \A j \in 1 .. Len(l) : ~StrLess(l[j], l[i])
         IN << l[i] >>
            \o sorted_list(SubSeq(l, 1, i - 1) \o SubSeq(l, i + 1, Len(l)))

\* the elements of a list
Range(f) == { f[i] : i \in DOMAIN f }

\* Python None
None == [kind |-> "None"]

(***************************************************************************)
(* Inputs                                                                  *)
(***************************************************************************)
\* numeric addresses of the universe
AddrVals == AddrLo .. (AddrLo + NumAddrs - 1)

\* address strings as the analyzer writes them
Addrs == { hex(n) : n \in AddrVals }

\* byte values: as many as an encoding may have bytes
NumByteVals == MaxBytes

\* instruction encodings
ByteStrings ==
    UNION { [1 .. n -> 1 .. NumByteVals] : n \in 1 .. MaxBytes }

\* instruction addresses
IAddrs == { hex(AddrLo + 1), hex(AddrLo + 2) }

\* rendered semantic annotations
Annotations == { "nop", "mov" }

\* decoded instructions
Instructions ==
    [kind : {"Instruction"}, iaddr : IAddrs, bytestring : ByteStrings,
     annotation : Annotations]

(***************************************************************************)
(* State                                                                   *)
(***************************************************************************)
VARIABLES
    be1,      \* app1.header.is_big_endian
    be2,      \* app2.header.is_big_endian
    instr1,   \* InstructionRelationalAnalysis._instr1
    instr2,   \* InstructionRelationalAnalysis._instr2 (None when unmapped)
    fn1,      \* FunctionRelationalAnalysis._fn1
    fn2,      \* FunctionRelationalAnalysis._fn2
    blockmapping,    \* FunctionRelationalAnalysis._blockmapping
    blockanalyses,   \* FunctionRelationalAnalysis._blockanalyses
    cfgmatcher_calls, \* number of CfgMatcher objects constructed so far
    cfgmatch, \* CfgMatcher(...).blockmapping for the pair (fn1, fn2)
    app1,     \* the functions of app1: address -> instruction encodings
    app2,     \* the functions of app2
    faddrs1,  \* RelationalAnalysis._faddrs1
    faddrs2,  \* RelationalAnalysis._faddrs2
    usermapping,       \* RelationalAnalysis._usermapping
    functionmapping,   \* RelationalAnalysis._functionmapping
    functionanalyses,  \* RelationalAnalysis._functionanalyses
    cgresult, \* CallgraphMatcher(...).function_mapping for these inputs
    cg_seed,  \* the user mapping handed to the last CallgraphMatcher
    direct_runs,       \* number of runs of the direct strategy so far
    cg_runs,  \* number of CallgraphMatcher objects constructed so far
    instructions,      \* BasicBlock.instructions: address -> Instruction
    ixval,    \* the indexed record an opcode descriptor is constructed from
    xdata,    \* InstrXData of the instruction being lowered
    astree,   \* the correspondences recorded in the ASTInterface
    simstate, \* the simulation state: registers, flags, program counter
    xvs,      \* the variables XXprUtil lowers
    xsize,    \* the access size they are lowered with
    formals,  \* astree: the formal occupying each argument location
    filenames,    \* StdPESummaries.filenames
    dllsummaries, \* StdPESummaries.dllsummaries
    reads,    \* the summary files read from the jar file, in order
    out       \* the result of the last operation performed

ivars == << instr1, instr2 >>
fvars == << fn1, fn2, blockmapping, blockanalyses, cfgmatcher_calls, cfgmatch >>
rinputs == << app1, app2, faddrs1, faddrs2, usermapping, cgresult >>
rvars == << rinputs, functionmapping, functionanalyses, cg_seed,
            direct_runs, cg_runs >>
\* the state of the components the relational analyses do not touch
\* the state of variable lowering and of the summary cache
lvars == << xvs, xsize, formals, filenames, dllsummaries, reads >>
ovars == << instructions, ixval, xdata, astree, simstate, lvars >>
vars == << be1, be2, ivars, fvars, rvars, ovars, out >>

\* no operation performed yet
NoOut == [obj |-> "none", op |-> "none", raised |-> FALSE, val |-> None]

\* an operation that returned v
Returned(o, p, v) == [obj |-> o, op |-> p, raised |-> FALSE, val |-> v]

\* an operation that raised the exception e
Raised(o, p, e) == [obj |-> o, op |-> p, raised |-> TRUE, val |-> e]

(***************************************************************************)
(* Content hashes                                                          *)
(***************************************************************************)
RECURSIVE Digest(_)
\* hashlib.md5 of a byte string, taken to be collision free
Digest(s) ==
    IF s = << >> THEN 1
    ELSE (NumByteVals + 1) * Digest(SubSeq(s, 1, Len(s) - 1)) + s[Len(s)]

\* Instruction.rev_bytestring: the encoding with its bytes in reverse order
rev_bytestring(s) == [i \in 1 .. Len(s) |-> s[Len(s) + 1 - i]]

\* Instruction.md5()
instr_md5(i) == Digest(i.bytestring)

\* Instruction.rev_md5()
instr_rev_md5(i) == Digest(rev_bytestring(i.bytestring))

(***************************************************************************)
(* InstructionRelationalAnalysis                                           *)
(***************************************************************************)
is_mapped == instr2 # None

ira_instr2_unchecked == Returned("ira", "instr2", instr2)

\* property instr2: the matched instruction, or CHBError
ira_instr2 ==
    IF is_mapped THEN Returned("ira", "instr2", instr2)
    ELSE Raised("ira", "instr2", "CHBError")

same_endianness == be1 = be2

same_address == is_mapped /\ instr1.iaddr = ira_instr2.val.iaddr

ira_is_md5_equal_plain ==
    IF is_mapped THEN instr_md5(instr1) = instr_md5(ira_instr2.val)
    ELSE FALSE

ira_is_md5_equal ==
    IF is_mapped
    THEN IF same_endianness
         THEN instr_md5(instr1) = instr_md5(ira_instr2.val)
         ELSE instr_md5(instr1) = instr_rev_md5(ira_instr2.val)
    ELSE FALSE

has_different_annotation ==
    IF is_mapped THEN instr1.annotation # ira_instr2.val.annotation
    ELSE TRUE

changes_no_semantics ==
    (IF ~same_address THEN << "address" >> ELSE << >>)
    \o (IF ~ira_is_md5_equal THEN << "bytes" >> ELSE << >>)

changes ==
    (IF ~same_address THEN << "address" >> ELSE << >>)
    \o (IF ~ira_is_md5_equal THEN << "bytes" >> ELSE << >>)
    \o (IF has_different_annotation THEN << "semantics" >> ELSE << >>)

is_changed == Len(changes) > 0

Get_instr2 ==
    /\ out' = ira_instr2
    /\ UNCHANGED << ovars, be1, be2, ivars, fvars, rvars >>

Get_is_mapped ==
    /\ out' = Returned("ira", "is_mapped", is_mapped)
    /\ UNCHANGED << ovars, be1, be2, ivars, fvars, rvars >>

Get_same_address ==
    /\ out' = Returned("ira", "same_address", same_address)
    /\ UNCHANGED << ovars, be1, be2, ivars, fvars, rvars >>

Get_ira_is_md5_equal ==
    /\ out' = Returned("ira", "is_md5_equal", ira_is_md5_equal)
    /\ UNCHANGED << ovars, be1, be2, ivars, fvars, rvars >>

Get_has_different_annotation ==
    /\ out' = Returned("ira", "has_different_annotation",
                       has_different_annotation)
    /\ UNCHANGED << ovars, be1, be2, ivars, fvars, rvars >>

Get_changes ==
    /\ out' = Returned("ira", "changes", changes)
    /\ UNCHANGED << ovars, be1, be2, ivars, fvars, rvars >>

Get_is_changed ==
    /\ out' = Returned("ira", "is_changed", is_changed)
    /\ UNCHANGED << ovars, be1, be2, ivars, fvars, rvars >>

(***************************************************************************)
(* Basic blocks and functions                                              *)
(***************************************************************************)
\* the empty dict
EmptyMap == << >>

RECURSIVE Concat(_)
\* the concatenation of a list of lists
Concat(ss) == IF ss = << >> THEN << >> ELSE Head(ss) \o Concat(Tail(ss))

\* BasicBlock.md5(): a block is the list of its instructions' encodings
block_md5(b) == Digest(Concat(b))

\* BasicBlock.rev_md5()
block_rev_md5(b) == Digest(Concat([i \in 1 .. Len(b) |-> rev_bytestring(b[i])]))

\* the blocks of a function in address order
BlocksInOrder(fn) ==
    LET RECURSIVE Order(_)
        Order(S) ==
            IF S = {} THEN << >>
            ELSE LET m == CHOOSE x \in S :
                              \A y \in S : int16(x) <= int16(y)
                 IN << fn.blocks[m] >> \o Order(S \ {m})
    IN Order(DOMAIN fn.blocks)

\* Function.md5: the hash of the encodings of all instructions
fn_md5(fn) == Digest(Concat(Concat(BlocksInOrder(fn))))

\* Function.rev_md5: the same over the byte-reversed encodings
fn_rev_md5(fn) ==
    LET bs == Concat(BlocksInOrder(fn))
    IN Digest(Concat([i \in 1 .. Len(bs) |-> rev_bytestring(bs[i])]))

(***************************************************************************)
(* FunctionRelationalAnalysis                                              *)
(***************************************************************************)
faddr1 == fn1.faddr

faddr2 == fn2.faddr

offset == int16(faddr2) - int16(faddr1)

fra_same_endianness == be1 = be2

address2_align(addr2) == hex(int16(addr2) - offset)

edge2_align(e2) == << address2_align(e2[1]), address2_align(e2[2]) >>

basic_blocks1 == fn1.blocks

basic_blocks2 == fn2.blocks

\* cfg1.edges_as_set (the cache _edges1 holds the same immutable set)
edges1 == fn1.edges

\* cfg2.edges_as_set
edges2 == fn2.edges

\* is_md5_equal of the analysis of the functions f1 and f2
fra_is_md5_equal(f1, f2) ==
    IF fra_same_endianness THEN fn_md5(f1) = fn_md5(f2)
    ELSE fn_md5(f1) = fn_rev_md5(f2)

is_structurally_equivalent_nocount ==
    LET bbaddrs1 == DOMAIN basic_blocks1
        bbaddrs2 == { address2_align(b) : b \in DOMAIN basic_blocks2 }
        bdiff == bbaddrs2 \ bbaddrs1
    IN  IF Cardinality(bdiff) = 0
        THEN LET ediff == edges1 \ { edge2_align(e) : e \in edges2 }
             IN Cardinality(ediff) = 0
        ELSE FALSE

is_structurally_equivalent ==
    IF /\ Cardinality(DOMAIN basic_blocks1) = Cardinality(DOMAIN basic_blocks2)
       /\ Cardinality(edges1) = Cardinality(edges2)
    THEN LET bbaddrs1 == DOMAIN basic_blocks1
             bbaddrs2 == { address2_align(b) : b \in DOMAIN basic_blocks2 }
             bdiff == bbaddrs2 \ bbaddrs1
         IN  IF Cardinality(bdiff) = 0
             THEN LET ediff == edges1 \ { edge2_align(e) : e \in edges2 }
                  IN Cardinality(ediff) = 0
             ELSE FALSE
    ELSE FALSE

block_mapping_noshift(bm) ==
    IF Cardinality(DOMAIN bm) = 0 /\ is_structurally_equivalent
    THEN [b1 \in DOMAIN basic_blocks1 |-> b1]
    ELSE bm

\* property block_mapping: the value of _blockmapping after the access,
\* which is also the value returned
block_mapping(bm) ==
    IF Cardinality(DOMAIN bm) = 0 /\ is_structurally_equivalent
    THEN [b1 \in DOMAIN basic_blocks1 |-> hex(int16(b1) + offset)]
    ELSE bm

\* BlockRelationalAnalysis(app1, basic_blocks1[b1], app2, basic_blocks2[b2])
BlockRelationalAnalysis(b1, b2) == [b1 |-> b1, b2 |-> b2]

\* BlockRelationalAnalysis.is_md5_equal
bra_is_md5_equal(blra) ==
    IF be1 = be2
    THEN block_md5(basic_blocks1[blra.b1]) = block_md5(basic_blocks2[blra.b2])
    ELSE block_md5(basic_blocks1[blra.b1])
         = block_rev_md5(basic_blocks2[blra.b2])

\* property block_analyses: the value of _blockanalyses after the access,
\* given the value bm of _blockmapping after the access to block_mapping
block_analyses(ba, bm) ==
    IF Cardinality(DOMAIN ba) = 0
    THEN [b1 \in DOMAIN bm |-> BlockRelationalAnalysis(b1, bm[b1])]
    ELSE ba

\* blocks_changed(), over the value ba of block_analyses
blocks_changed(ba) ==
    SelectSeq(sorted(DOMAIN ba), LAMBDA b : ~bra_is_md5_equal(ba[b]))

\* the string "no"
No == << 110, 111 >>

\* the lines report() emits per block when the cfgs are address-isomorphic
report_rows(bm, ba) ==
    LET keys == sorted(DOMAIN bm)
    IN [i \in 1 .. Len(keys) |->
          [block |-> keys[i],
           moved |-> IF keys[i] = bm[keys[i]] THEN No ELSE bm[keys[i]],
           md5eq |-> IF bra_is_md5_equal(ba[keys[i]]) THEN "yes" ELSE "no"]]

\* the lines report() emits per block in the CfgMatcher branch, given the
\* matcher's block mapping m and the value ba of _blockanalyses
report_match_rows(m, ba) ==
    LET keys == sorted(DOMAIN basic_blocks1)
        line(b) ==
            IF b \in DOMAIN m
            THEN IF b = m[b] THEN << >>
                 ELSE << [block |-> b, moved |-> m[b],
                          md5eq |-> IF bra_is_md5_equal(ba[b])
                                    THEN "yes" ELSE "no"] >>
            ELSE << [block |-> b] >>
    IN Concat([i \in 1 .. Len(keys) |-> line(keys[i])])

\* _blockanalyses after the CfgMatcher branch of report()
report_match_analyses(m, ba) ==
    [b \in (DOMAIN ba) \cup (DOMAIN m) |->
        IF b \in DOMAIN m THEN BlockRelationalAnalysis(b, m[b]) ELSE ba[b]]

Get_is_structurally_equivalent ==
    /\ out' = Returned("fra", "is_structurally_equivalent",
                       is_structurally_equivalent)
    /\ UNCHANGED << ovars, be1, be2, ivars, fvars, rvars >>

Get_fra_is_md5_equal ==
    /\ out' = Returned("fra", "is_md5_equal", fra_is_md5_equal(fn1, fn2))
    /\ UNCHANGED << ovars, be1, be2, ivars, fvars, rvars >>

Get_block_mapping ==
    /\ blockmapping' = block_mapping(blockmapping)
    /\ out' = Returned("fra", "block_mapping", blockmapping')
    /\ UNCHANGED << ovars, be1, be2, ivars, rvars, fn1, fn2, blockanalyses,
                    cfgmatcher_calls, cfgmatch >>

Get_block_analyses ==
    /\ blockmapping' =
           IF Cardinality(DOMAIN blockanalyses) = 0
           THEN block_mapping(blockmapping) ELSE blockmapping
    /\ blockanalyses' = block_analyses(blockanalyses, blockmapping')
    /\ out' = Returned("fra", "block_analyses", blockanalyses')
    /\ UNCHANGED << ovars, be1, be2, ivars, rvars, fn1, fn2, cfgmatcher_calls, cfgmatch >>

Call_blocks_changed ==
    /\ blockmapping' =
           IF Cardinality(DOMAIN blockanalyses) = 0
           THEN block_mapping(blockmapping) ELSE blockmapping
    /\ blockanalyses' = block_analyses(blockanalyses, blockmapping')
    /\ out' = Returned("fra", "blocks_changed", blocks_changed(blockanalyses'))
    /\ UNCHANGED << ovars, be1, be2, ivars, rvars, fn1, fn2, cfgmatcher_calls, cfgmatch >>

\* report() when the two cfgs are address-isomorphic
Call_report_equivalent ==
    /\ is_structurally_equivalent
    /\ blockmapping' = block_mapping(blockmapping)
    /\ blockanalyses' = block_analyses(blockanalyses, blockmapping')
    /\ \E showinstructions \in BOOLEAN :
         out' = Returned("fra", "report",
                  [rows |-> report_rows(blockmapping', blockanalyses'),
                   changed |-> IF showinstructions
                               THEN blocks_changed(blockanalyses')
                               ELSE << >>])
    /\ UNCHANGED << ovars, be1, be2, ivars, rvars, fn1, fn2, cfgmatcher_calls, cfgmatch >>

\* report() otherwise: a CfgMatcher is constructed and its block mapping is
\* entered into _blockanalyses
Call_report_cfgmatcher ==
    /\ ~is_structurally_equivalent
    /\ cfgmatcher_calls < MaxMatcherCalls
    /\ cfgmatcher_calls' = cfgmatcher_calls + 1
    /\ blockanalyses' = report_match_analyses(cfgmatch, blockanalyses)
    /\ out' = Returned("fra", "report",
                [rows |-> report_match_rows(cfgmatch, blockanalyses'),
                 blocksmatched |-> Cardinality(DOMAIN cfgmatch),
                 blocks1 |-> Cardinality(DOMAIN basic_blocks1)])
    /\ UNCHANGED << ovars, be1, be2, ivars, rvars, fn1, fn2, blockmapping, cfgmatch >>

(***************************************************************************)
(* RelationalAnalysis                                                      *)
(***************************************************************************)
\* app.function(faddr): the function of one block the application has at
\* faddr
app_function(app, faddr) ==
    [faddr |-> faddr, blocks |-> [b \in {faddr} |-> app[faddr]], edges |-> {}]

\* app.function_md5s: the flat table of the hashes of all functions
function_md5s(app) ==
    [a \in DOMAIN app |-> fn_md5(app_function(app, a))]

md5s1 == function_md5s(app1)

md5s2 == function_md5s(app2)

fncount1 == Len(faddrs1)

fncount2 == Len(faddrs2)

RECURSIVE Dedupe(_)
\* the list l without the later occurrences of its elements (dict key order)
Dedupe(l) ==
    IF l = << >> THEN << >>
    ELSE LET r == Dedupe(SubSeq(l, 1, Len(l) - 1))
         IN IF l[Len(l)] \in Range(r) THEN r ELSE Append(r, l[Len(l)])

\* the pairs zip(diff1, diff2) enters into the direct mapping
zipped(diff1, diff2) ==
    LET n == IF Len(diff1) < Len(diff2) THEN Len(diff1) ELSE Len(diff2)
    IN [a \in { diff1[i] : i \in 1 .. n } |->
           diff2[CHOOSE i \in 1 .. n : diff1[i] = a]]

\* the mapping of the direct strategy (fncount1 == fncount2)
direct_mapping ==
    LET diff1 == sorted(Range(faddrs1) \ Range(faddrs2))
        diff2 == sorted(Range(faddrs2) \ Range(faddrs1))
        result == zipped(diff1, diff2)
    IN [a \in Range(faddrs1) |->
           IF a \in DOMAIN result THEN result[a] ELSE a]

function_mapping_user(fm) ==
    IF Cardinality(DOMAIN usermapping) > 0 THEN usermapping
    ELSE IF Cardinality(DOMAIN fm) > 0 THEN fm
    ELSE IF fncount1 = fncount2 THEN direct_mapping
    ELSE cgresult

\* property function_mapping: the value of _functionmapping after an access
\* that finds the value fm, which is also the value returned
function_mapping(fm) ==
    IF Cardinality(DOMAIN fm) > 0 THEN fm
    ELSE IF fncount1 = fncount2 THEN direct_mapping
    ELSE cgresult

\* the number of strategy runs k successive accesses to function_mapping
\* cause: none when the cache is non-empty, one when the strategy fills it,
\* one at every access while the computed mapping is empty
strategy_runs(fm, k) ==
    IF k = 0 \/ Cardinality(DOMAIN fm) > 0 THEN 0
    ELSE IF Cardinality(DOMAIN function_mapping(fm)) > 0 THEN 1
    ELSE k

\* the effect of k successive accesses to function_mapping on the state
AccessMapping(k) ==
    LET runs == strategy_runs(functionmapping, k)
        direct == fncount1 = fncount2
    IN  /\ functionmapping' =
               IF k > 0 THEN function_mapping(functionmapping)
               ELSE functionmapping
        /\ direct_runs' = direct_runs + (IF direct THEN runs ELSE 0)
        /\ cg_runs' = cg_runs + (IF direct THEN 0 ELSE runs)
        /\ cg_seed' = IF ~direct /\ runs > 0 THEN usermapping ELSE cg_seed
        /\ direct_runs' <= MaxStrategyRuns
        /\ cg_runs' <= MaxStrategyRuns

\* FunctionRelationalAnalysis(app1, fn1, app2, fn2, patchevents)
FunctionRelationalAnalysis(a1, a2) == [faddr1 |-> a1, faddr2 |-> a2]

\* FunctionRelationalAnalysis.moved: mapped to a different address
moved(fra) == fra.faddr1 # fra.faddr2

\* accesses to function_mapping the property function_analyses makes
function_analyses_accesses(fa) ==
    IF Cardinality(DOMAIN fa) = 0 THEN Len(faddrs1) ELSE 0

\* property function_analyses: the value of _functionanalyses after the
\* access, given the function mapping fm
function_analyses(fa, fm) ==
    IF Cardinality(DOMAIN fa) = 0
    THEN [a \in Range(faddrs1) \cap DOMAIN fm |->
             FunctionRelationalAnalysis(a, fm[a])]
    ELSE fa

\* the keys of _functionanalyses in insertion order
analyses_keys(fa) == SelectSeq(Dedupe(faddrs1), LAMBDA a : a \in DOMAIN fa)

\* the test of the first loop of functions_changed
fra_changed(fra) ==
    \/ moved(fra)
    \/ ~fra_is_md5_equal(app_function(app1, fra.faddr1),
                         app_function(app2, fra.faddr2))

RECURSIVE consistency_pass(_, _, _)
\* the second loop of functions_changed over the remaining items of md5s1,
\* where faddr is the variable the first loop left behind
consistency_pass(keys, result, faddr) ==
    IF keys = << >> THEN Returned("ra", "functions_changed", result)
    ELSE LET fa1 == Head(keys)
         IN IF faddr \in DOMAIN md5s2
            THEN IF fa1 \notin DOMAIN md5s2
                 THEN Raised("ra", "functions_changed", "KeyError")
                 ELSE IF \/ md5s1[fa1] = md5s2[fa1]
                         \/ faddr \in Range(result)
                      THEN consistency_pass(Tail(keys), result, faddr)
                      ELSE consistency_pass(Tail(keys),
                                            Append(result, fa1), faddr)
            ELSE consistency_pass(Tail(keys), result, faddr)

\* functions_changed(), over the value fa of function_analyses; the items
\* of md5s1 are taken in sorted order
functions_changed(fa) ==
    LET keys == analyses_keys(fa)
        result == SelectSeq(keys, LAMBDA a : fra_changed(fa[a]))
        items == sorted(DOMAIN md5s1)
    IN  IF items = << >> THEN Returned("ra", "functions_changed", result)
        ELSE IF keys = << >>
        THEN Raised("ra", "functions_changed", "UnboundLocalError")
        ELSE consistency_pass(items, result, keys[Len(keys)])

Get_function_mapping ==
    /\ AccessMapping(1)
    /\ out' = Returned("ra", "function_mapping", functionmapping')
    /\ UNCHANGED << ovars, be1, be2, ivars, fvars, rinputs, functionanalyses >>

Call_functions_mapped ==
    /\ AccessMapping(1)
    /\ out' = Returned("ra", "functions_mapped",
                       sorted(DOMAIN functionmapping'))
    /\ UNCHANGED << ovars, be1, be2, ivars, fvars, rinputs, functionanalyses >>

Call_functions_added ==
    /\ AccessMapping(Len(faddrs2))
    /\ out' = Returned("ra", "functions_added",
                 SelectSeq(sorted_list(faddrs2),
                           LAMBDA a : a \notin Range(functionmapping')))
    /\ UNCHANGED << ovars, be1, be2, ivars, fvars, rinputs, functionanalyses >>

Get_function_analyses ==
    /\ AccessMapping(function_analyses_accesses(functionanalyses))
    /\ functionanalyses' =
           function_analyses(functionanalyses, functionmapping')
    /\ out' = Returned("ra", "function_analyses", functionanalyses')
    /\ UNCHANGED << ovars, be1, be2, ivars, fvars, rinputs >>

Call_functions_changed ==
    /\ AccessMapping(function_analyses_accesses(functionanalyses))
    /\ functionanalyses' =
           function_analyses(functionanalyses, functionmapping')
    /\ out' = functions_changed(functionanalyses')
    /\ UNCHANGED << ovars, be1, be2, ivars, fvars, rinputs >>

Call_functions_removed ==
    LET fa == function_analyses(
                  functionanalyses,
                  IF function_analyses_accesses(functionanalyses) > 0
                  THEN function_mapping(functionmapping)
                  ELSE functionmapping)
        changed == functions_changed(fa)
    IN  /\ AccessMapping(function_analyses_accesses(functionanalyses)
                         + (IF changed.raised THEN 0 ELSE Len(changed.val)))
        /\ functionanalyses' = fa
        /\ out' = IF changed.raised
                  THEN Raised("ra", "functions_removed", changed.val)
                  ELSE Returned("ra", "functions_removed",
                          SelectSeq(sorted_list(changed.val),
                                    LAMBDA a : a \notin DOMAIN functionmapping'))
        /\ UNCHANGED << ovars, be1, be2, ivars, fvars, rinputs >>

(***************************************************************************)
(* Opcode descriptors                                                      *)
(***************************************************************************)
\* an indexed record with nt tags and na arguments
IndexedTableValue(nt, na) ==
    [tags |-> [i \in 1 .. nt |-> "t"], args |-> [i \in 1 .. na |-> i]]

\* IndexedTableValue.check_key(taglen, arglen, name): whether it raises
check_key_fails(ix, taglen, arglen) ==
    Len(ix.tags) # taglen \/ Len(ix.args) # arglen

\* ARMOpcode.__init__ followed by self.check_key(taglen, arglen, name)
ARMOpcode_checked(mnemonic, ix, taglen, arglen) ==
    IF check_key_fails(ix, taglen, arglen)
    THEN Raised("opcode", mnemonic, "CHBError")
    ELSE Returned("opcode", mnemonic, ix)

\* MIPSOpcode.__init__ / X86Opcode.__init__ alone: the record is kept
Opcode_unchecked(mnemonic, ix) == Returned("opcode", mnemonic, ix)

ARMUnsignedMultiplyLong(ix) == ARMOpcode_checked("UMULL", ix, 2, 5)

ARMLoadRegister(ix) == ARMOpcode_checked("LDR", ix, 2, 5)

ARMUnsignedExtendByte(ix) == ARMOpcode_checked("UXTB", ix, 2, 3)

MIPSAddUnsigned(ix) == Opcode_unchecked("addu", ix)

MIPSSubtractUnsigned(ix) == Opcode_unchecked("subu", ix)

X86RotateRight(ix) == Opcode_unchecked("ror", ix)

Construct_UMULL ==
    /\ out' = ARMUnsignedMultiplyLong(ixval)
    /\ UNCHANGED << ovars, be1, be2, ivars, fvars, rvars >>

Construct_LDR ==
    /\ out' = ARMLoadRegister(ixval)
    /\ UNCHANGED << ovars, be1, be2, ivars, fvars, rvars >>

Construct_UXTB ==
    /\ out' = ARMUnsignedExtendByte(ixval)
    /\ UNCHANGED << ovars, be1, be2, ivars, fvars, rvars >>

Construct_addu ==
    /\ out' = MIPSAddUnsigned(ixval)
    /\ UNCHANGED << ovars, be1, be2, ivars, fvars, rvars >>

Construct_subu ==
    /\ out' = MIPSSubtractUnsigned(ixval)
    /\ UNCHANGED << ovars, be1, be2, ivars, fvars, rvars >>

Construct_ror ==
    /\ out' = X86RotateRight(ixval)
    /\ UNCHANGED << ovars, be1, be2, ivars, fvars, rvars >>

\* a well-formed UMULL record
OpcodeDefault ==
    ixval = IndexedTableValue(2, 5)

(***************************************************************************)
(* Machine words                                                           *)
(*                                                                         *)
(* A word is the sequence of its bytes, least significant first: a         *)
(* register holds WordBytes of them, a product twice as many.              *)
(***************************************************************************)
\* bytes of a 32-bit register
WordBytes == 4

\* values of one byte
ByteRange == 256

\* the n bytes of the number v
ToBytes(v, n) == [i \in 1 .. n |-> (v \div ByteRange ^ (i - 1)) % ByteRange]

\* the number a byte sequence denotes, for sequences that denote small ones
RECURSIVE ToNumber(_)
ToNumber(w) ==
    IF w = << >> THEN 0 ELSE w[1] + ByteRange * ToNumber(Tail(w))

\* w extended with zero bytes, or cut, to n bytes
Resize(w, n) == [i \in 1 .. n |-> IF i <= Len(w) THEN w[i] ELSE 0]

\* carries propagated through a sequence of byte sums, keeping its length
RECURSIVE Carried(_, _)
Carried(sums, carry) ==
    IF sums = << >> THEN << >>
    ELSE << (sums[1] + carry) % ByteRange >>
         \o Carried(Tail(sums), (sums[1] + carry) \div ByteRange)

\* the sum of the products x[i] * y[j] that land on byte k
RECURSIVE Column(_, _, _, _)
Column(x, y, k, i) ==
    IF i > Len(x) \/ i > k THEN 0
    ELSE (IF k - i + 1 <= Len(y) THEN x[i] * y[k - i + 1] ELSE 0)
         + Column(x, y, k, i + 1)

\* the full product of two words, of Len(x) + Len(y) bytes
word_mult(x, y) ==
    Carried([k \in 1 .. Len(x) + Len(y) |-> Column(x, y, k, 1)], 0)

\* the bitwise and of two bytes
RECURSIVE byte_and(_, _)
byte_and(p, q) ==
    IF p = 0 \/ q = 0 THEN 0
    ELSE (p % 2) * (q % 2) + 2 * byte_and(p \div 2, q \div 2)

\* the bitwise and of two words
word_and(x, y) ==
    LET n == IF Len(x) > Len(y) THEN Len(x) ELSE Len(y)
    IN [i \in 1 .. n |-> byte_and(Resize(x, n)[i], Resize(y, n)[i])]

\* x shifted right by n bits, keeping its length
word_lsr(x, n) ==
    LET q == n \div 8
        r == n % 8
        at(i) == IF i <= Len(x) THEN x[i] ELSE 0
    IN [i \in 1 .. Len(x) |->
            (at(i + q) \div 2 ^ r) + (at(i + q + 1) % 2 ^ r) * 2 ^ (8 - r)]

(***************************************************************************)
(* Lowering to AST                                                         *)
(***************************************************************************)
\* 0xffffffff, the mask of the low word
masklo_value == << 255, 255, 255, 255 >>

\* the shift that selects the high word
shifthi_value == 32

\* operand.ast_lvalue(astree): the low-level lvalue of a register operand
ast_lvalue(reg) == [level |-> "ll", name |-> reg]

\* XU.xvariable_to_ast_lval(v, xdata, iaddr, astree): the high-level lvalue
\* of an analysis variable
xvariable_to_ast_lval(v) == [level |-> "hl", name |-> v]

\* astree.mk_integer_constant, of a word
mk_integer_constant(v) == [op |-> "const", val |-> v]

\* operand.ast_rvalue(astree): the low-level value of a register operand
ast_rvalue(reg) == [op |-> "lval", lval |-> ast_lvalue(reg)]

\* XU.xxpr_to_ast_def_expr(x, xdata, iaddr, astree): the high-level
\* expression of an analysis expression
xxpr_to_ast_def_expr(x) == [op |-> "xpr", name |-> x]

\* astree.mk_binary_op
mk_binary_op(op, l, r) == [op |-> op, left |-> l, right |-> r]

\* astree.mk_assign
mk_assign(lhs, rhs, annotations) ==
    [lhs |-> lhs, rhs |-> rhs, annotations |-> annotations]

\* an ASTInterface without correspondences
EmptyAstree ==
    [instr_mapping |-> {}, instr_address |-> {}, expr_mapping |-> {},
     lval_mapping |-> {}, expr_reachingdefs |-> {}, lval_defuses |-> {},
     lval_defuses_high |-> {}, reg_definition |-> {}]

\* the union of the correspondences of two ASTInterface values
AstreeUnion(t, u) ==
    [f \in DOMAIN EmptyAstree |-> t[f] \cup u[f]]

\* the value of a low-level expression when Rn holds a and Rm holds b
RECURSIVE ast_value(_, _, _)
ast_value(e, a, b) ==
    CASE e.op = "const" -> e.val
      [] e.op = "lval" -> IF e.lval.name = "Rn" THEN a ELSE b
      [] e.op = "mult" -> word_mult(ast_value(e.left, a, b),
                                    ast_value(e.right, a, b))
      [] e.op = "and" -> word_and(ast_value(e.left, a, b),
                                  ast_value(e.right, a, b))
      [] e.op = "lsr" -> word_lsr(ast_value(e.left, a, b),
                                  ToNumber(ast_value(e.right, a, b)))

\* what a register holds after an assignment of the expression e
stored(e, a, b) == Resize(ast_value(e, a, b), WordBytes)

\* ARMUnsignedMultiplyLong.assembly_ast
UMULL_assembly_ast ==
    LET annotations == << "iaddr", "UMULL" >>
        rhs1 == ast_rvalue("Rn")
        rhs2 == ast_rvalue("Rm")
        lhs1 == ast_lvalue("RdLo")
        lhs2 == ast_lvalue("RdHi")
        binop == mk_binary_op("mult", rhs1, rhs2)
        zero == mk_integer_constant(ToBytes(0, WordBytes))
        assign1 == mk_assign(lhs1, binop, annotations \o << "low" >>)
        assign2 == mk_assign(lhs2, zero, annotations)
    IN << assign1, assign2 >>

\* the low-level assignments of ARMUnsignedMultiplyLong.ast_prov
UMULL_ll_assigns ==
    LET annotations == << "iaddr", "UMULL" >>
        ll_result == mk_binary_op("mult", ast_rvalue("Rn"), ast_rvalue("Rm"))
        masklo == mk_integer_constant(masklo_value)
        shifthi == mk_integer_constant(ToBytes(shifthi_value, WordBytes))
        ll_lo_result == mk_binary_op("and", ll_result, masklo)
        ll_hi_result == mk_binary_op("lsr", ll_result, shifthi)
    IN << mk_assign(ast_lvalue("RdLo"), ll_lo_result, annotations),
          mk_assign(ast_lvalue("RdHi"), ll_hi_result, annotations) >>

\* the high-level assignments of ARMUnsignedMultiplyLong.ast_prov
UMULL_hl_assigns ==
    LET annotations == << "iaddr", "UMULL" >>
        hl_lhslo == xvariable_to_ast_lval("vlo")
        hl_rhslo == xxpr_to_ast_def_expr("rresult")
        hl_rhshi ==
            mk_binary_op("lsr", hl_rhslo,
                         mk_integer_constant(ToBytes(shifthi_value,
                                                     WordBytes)))
    IN << mk_assign(hl_lhslo, hl_rhslo, annotations),
          mk_assign(ast_lvalue("RdHi"), hl_rhshi, annotations) >>

\* the correspondences ARMUnsignedMultiplyLong.ast_prov records
UMULL_records ==
    LET hl == UMULL_hl_assigns
        ll == UMULL_ll_assigns
        hl_lhslo == xvariable_to_ast_lval("vlo")
        hl_lhshi == xvariable_to_ast_lval("vhi")
    IN [instr_mapping |-> { << hl[1], ll[1] >>, << hl[2], ll[2] >> },
        instr_address |-> { << hl[1], "iaddr" >> },
        expr_mapping |-> { << hl[1].rhs, ll[1].rhs >> },
        lval_mapping |-> { << hl_lhslo, ast_lvalue("RdLo") >> },
        expr_reachingdefs |-> { << ast_rvalue("Rn"), "rdefs0" >>,
                                << ast_rvalue("Rm"), "rdefs1" >> },
        lval_defuses |-> { hl_lhslo, hl_lhshi },
        lval_defuses_high |-> { hl_lhslo, hl_lhshi },
        reg_definition |-> {}]

\* ARMUnsignedMultiplyLong.ast_prov: the value returned
UMULL_ast_prov ==
    IF ~xdata.is_ok THEN << << >>, << >> >>
    ELSE << UMULL_hl_assigns, UMULL_ll_assigns >>

Call_UMULL_assembly_ast ==
    /\ out' = Returned("UMULL", "assembly_ast", UMULL_assembly_ast)
    /\ UNCHANGED << ovars, be1, be2, ivars, fvars, rvars >>

Call_UMULL_ast_prov ==
    /\ astree' = IF xdata.is_ok THEN AstreeUnion(astree, UMULL_records)
                 ELSE astree
    /\ out' = Returned("UMULL", "ast_prov", UMULL_ast_prov)
    /\ UNCHANGED << instructions, ixval, xdata, simstate, lvars, be1, be2, ivars,
                    fvars,
                    rvars >>

\* the low-level assignments of ARMLoadRegister.ast_prov; write_back is
\* opargs[3].is_indirect_register and opargs[3].is_write_back
LDR_ll_assigns ==
    LET annotations == << "iaddr", "LDR", "addr" >>
        ll_assign == mk_assign(ast_lvalue("Rt"), ast_rvalue("mem"),
                               annotations)
        ll_addr_assign ==
            mk_assign(ast_lvalue("Rn"),
                      [op |-> "addr", lval |-> ast_lvalue("mem")],
                      annotations)
    IN IF xdata.write_back THEN << ll_assign, ll_addr_assign >>
       ELSE << ll_assign >>

\* the high-level assignments of ARMLoadRegister.ast_prov
LDR_hl_assigns ==
    LET annotations == << "iaddr", "LDR", "addr" >>
        hl_assign == mk_assign(xvariable_to_ast_lval("vars0"),
                               xxpr_to_ast_def_expr("xprs3"), annotations)
        hl_addr_assign == mk_assign(xvariable_to_ast_lval("vars1"),
                                    xxpr_to_ast_def_expr("xprs4"),
                                    annotations)
    IN IF xdata.write_back THEN << hl_assign, hl_addr_assign >>
       ELSE << hl_assign >>

\* the correspondences ARMLoadRegister.ast_prov records
LDR_records ==
    LET hl == LDR_hl_assigns
        ll == LDR_ll_assigns
        load == [instr_mapping |-> { << hl[1], ll[1] >> },
                 instr_address |-> { << hl[1], "iaddr" >> },
                 expr_mapping |-> { << hl[1].rhs, ll[1].rhs >> },
                 lval_mapping |-> { << hl[1].lhs, ll[1].lhs >> },
                 expr_reachingdefs |-> { << ll[1].rhs, "rdefs" >> },
                 lval_defuses |-> { hl[1].lhs },
                 lval_defuses_high |-> { hl[1].lhs },
                 reg_definition |-> {}]
    IN IF xdata.write_back
       THEN AstreeUnion(load,
               [instr_mapping |-> { << hl[2], ll[2] >> },
                instr_address |-> { << hl[2], "iaddr" >> },
                expr_mapping |-> { << hl[2].rhs, ll[2].rhs >> },
                lval_mapping |-> { << hl[2].lhs, ll[2].lhs >> },
                expr_reachingdefs |-> { << ll[2].rhs, "rdefs0" >> },
                lval_defuses |-> { ll[2].lhs },
                lval_defuses_high |-> { ll[2].lhs },
                reg_definition |-> {}])
       ELSE load

\* ARMLoadRegister.ast_prov: the value returned (ll_pre and ll_post of the
\* memory operand are empty)
LDR_ast_prov == << LDR_hl_assigns, LDR_ll_assigns >>

\* XU.xvariable_to_ast_lvals / XU.xxpr_to_ast_def_exprs: the n nodes a
\* variable or expression named v lowers to
ast_nodes(v, n) == [i \in 1 .. n |-> [level |-> "hl", name |-> v, part |-> i]]

\* whether ARMUnsignedExtendByte.ast_prov raises CHBError
UXTB_fails == ~(xdata.nrhs = 1 /\ xdata.nlhs = 1)

\* the low-level assignment of ARMUnsignedExtendByte.ast_prov
UXTB_ll_assign ==
    mk_assign(ast_lvalue("Rd"), ast_rvalue("Rm"), << "iaddr", "UXTB" >>)

\* the high-level assignment of ARMUnsignedExtendByte.ast_prov
UXTB_hl_assign ==
    mk_assign(ast_nodes("vars0", xdata.nlhs)[1],
              ast_nodes("xprs2", xdata.nrhs)[1], << "iaddr", "UXTB" >>)

\* the correspondences ARMUnsignedExtendByte.ast_prov records
UXTB_records ==
    LET hl == UXTB_hl_assign
        ll == UXTB_ll_assign
    IN [instr_mapping |-> { << hl, ll >> },
        instr_address |-> { << hl, "iaddr" >> },
        expr_mapping |-> { << hl.rhs, ll.rhs >> },
        lval_mapping |-> { << hl.lhs, ll.lhs >> },
        expr_reachingdefs |-> { << ll.rhs, "rdefs0" >>, << hl.rhs, "rdefs1:" >> },
        lval_defuses |-> { hl.lhs },
        lval_defuses_high |-> { hl.lhs },
        reg_definition |-> { << "iaddr", hl.lhs, hl.rhs >> }]

Call_LDR_ast_prov ==
    /\ astree' = AstreeUnion(astree, LDR_records)
    /\ out' = Returned("LDR", "ast_prov", LDR_ast_prov)
    /\ UNCHANGED << instructions, ixval, xdata, simstate, lvars, be1, be2, ivars,
                    fvars,
                    rvars >>

Call_UXTB_ast_prov ==
    /\ astree' = IF UXTB_fails THEN astree
                 ELSE AstreeUnion(astree, UXTB_records)
    /\ out' = IF UXTB_fails THEN Raised("UXTB", "ast_prov", "CHBError")
              ELSE Returned("UXTB", "ast_prov",
                            << << UXTB_hl_assign >>, << UXTB_ll_assign >> >>)
    /\ UNCHANGED << instructions, ixval, xdata, simstate, lvars, be1, be2, ivars,
                    fvars,
                    rvars >>

\* xdata.has_instruction_condition
has_instruction_condition(xd) == xd.instruction_condition

\* xdata.has_unknown_instruction_condition
has_unknown_instruction_condition(xd) == xd.unknown_instruction_condition

\* xdata.has_base_update
has_base_update(xd) == xd.base_update

\* ARMLoadRegister.annotation: a text is the sequence of its pieces, str(x)
\* one piece; xdata.vars[i] and xdata.xprs[i] are vars[i + 1] and
\* xprs[i + 1] here
LDR_annotation(xd) ==
    LET lhs == xd.vars[0 + 1]
        rhs == xd.xprs[3 + 1]
        xctr == IF has_instruction_condition(xd) THEN 5 + 1 ELSE 5
        pcond ==
            IF has_instruction_condition(xd)
            THEN << "if ", xd.xprs[5 + 1], " then " >>
            ELSE IF has_unknown_instruction_condition(xd)
            THEN << "if ", "?", " then " >>
            ELSE << >>
        vctr == 2
        pbupd ==
            IF has_base_update(xd)
            THEN << "; ", xd.vars[vctr + 1], " := ", xd.xprs[xctr + 1] >>
            ELSE << >>
    IN IF rhs = "??"
       THEN pcond \o << lhs, " := *(", xd.xprs[4 + 1], ")" >>
       ELSE pcond \o << lhs, " := ", rhs >> \o pbupd

Call_LDR_annotation ==
    /\ out' = Returned("LDR", "annotation", LDR_annotation(xdata))
    /\ UNCHANGED << ovars, be1, be2, ivars, fvars, rvars >>

\* an instruction with resolved xdata, one lvalue and one expression, and
\* no write-back, before anything is lowered
AstDefault ==
    /\ xdata = [is_ok |-> TRUE, write_back |-> FALSE, nlhs |-> 1, nrhs |-> 1]
    /\ astree = EmptyAstree

(***************************************************************************)
(* Simulation                                                              *)
(*                                                                         *)
(* The simulation state holds three operand locations: a and b are the     *)
(* source operands rs and rt of a MIPS instruction and d its destination   *)
(* rd; x86 ror rotates its destination operand a by its source operand b.  *)
(***************************************************************************)
\* (x + y) mod 2^32
word_add(x, y) == Carried([i \in 1 .. WordBytes |-> x[i] + y[i]], 0)

\* (x - y) % (SU.max32 + 1)
word_sub(x, y) ==
    Carried([i \in 1 .. WordBytes |-> x[i] + (ByteRange - 1 - y[i])], 1)

\* bit i of a word, bit 0 the least significant
word_bit(x, i) == (x[(i \div 8) + 1] \div 2 ^ (i % 8)) % 2

\* the word with the given bits
word_of_bits(bits) ==
    [k \in 1 .. WordBytes |->
        bits[8 * k - 7] + 2 * bits[8 * k - 6] + 4 * bits[8 * k - 5]
        + 8 * bits[8 * k - 4] + 16 * bits[8 * k - 3] + 32 * bits[8 * k - 2]
        + 64 * bits[8 * k - 1] + 128 * bits[8 * k]]

\* x rotated right by the count n, taken modulo the width
word_ror(x, n) ==
    LET width == 8 * WordBytes
        count == n[1] % width
    IN word_of_bits([i \in 1 .. width |->
                        word_bit(x, (i - 1 + count) % width)])

\* SV.mk_simvalue: a defined literal
mk_simvalue(w) ==
    [kind |-> "literal", defined |-> TRUE, val |-> w, base |-> "",
     name |-> ""]

\* SV.simUndefinedDW
simUndefinedDW ==
    [kind |-> "literal", defined |-> FALSE, val |-> ToBytes(0, WordBytes),
     base |-> "", name |-> ""]

\* SSV.mk_symbol
mk_symbol(name) ==
    [kind |-> "symbol", defined |-> TRUE, val |-> ToBytes(0, WordBytes),
     base |-> "", name |-> name]

\* SSV.mk_global_address
mk_global_address(off) ==
    [kind |-> "global", defined |-> TRUE, val |-> off, base |-> "global",
     name |-> ""]

\* SSV.mk_stack_address
mk_stack_address(off) ==
    [kind |-> "stack", defined |-> TRUE, val |-> off, base |-> "stack",
     name |-> ""]

\* SSV.mk_base_address
mk_base_address(b, off) ==
    [kind |-> "base", defined |-> TRUE, val |-> off, base |-> b,
     name |-> ""]

is_symbol(v) == v.kind = "symbol"

is_literal(v) == v.kind = "literal"

is_address(v) == v.kind \in {"global", "stack", "base"}

is_global_address(v) == v.kind = "global"

is_stack_address(v) == v.kind = "stack"

is_base_address(v) == v.kind = "base"

is_defined(v) == v.defined

is_undefined(v) == ~v.defined

\* str(v) of a simulation value
sim_str(v) ==
    CASE is_symbol(v) -> v.name
      [] is_undefined(v) -> "?"
      [] is_address(v) -> v.base \o ":" \o ToString(v.val)
      [] OTHER -> ToString(v.val)

\* SimAddress.add_offset
add_offset(v, w) == [v EXCEPT !.val = word_add(@, w)]

\* SimLiteralValue.add
literal_add(v, w) ==
    IF is_literal(w) /\ is_defined(w) THEN mk_simvalue(word_add(v.val, w.val))
    ELSE simUndefinedDW

\* SimLiteralValue.bitwise_ror
bitwise_ror(v, w) == mk_simvalue(word_ror(v.val, w.val))

\* a result to write, or the exception raised instead
Writes(v) == [raises |-> FALSE, result |-> v, exception |-> ""]

Raises(e) == [raises |-> TRUE, result |-> simUndefinedDW, exception |-> e]

\* MIPSAddUnsigned.simulate: the result computed from the source values
addu_result(src1val, src2val) ==
    CASE is_symbol(src2val) ->
             Writes(mk_symbol(src2val.name \o ":add " \o sim_str(src1val)))
      [] ~is_symbol(src2val) /\ is_symbol(src1val) ->
             Raises("CHBSymbolicExpression")
      [] OTHER ->
             IF is_address(src2val) /\ is_literal(src1val)
                /\ is_defined(src1val)
             THEN Writes(add_offset(src2val, src1val.val))
             ELSE IF is_literal(src1val) /\ is_defined(src1val)
             THEN Writes(literal_add(src1val, src2val))
             ELSE Writes(simUndefinedDW)

subu_result_added(src1val, src2val) ==
    IF is_undefined(src1val) \/ is_undefined(src2val)
    THEN Writes(simUndefinedDW)
    ELSE Writes(mk_simvalue(word_add(src1val.val, src2val.val)))

\* MIPSSubtractUnsigned.simulate: the result computed from the source values
subu_result(src1val, src2val) ==
    LET diff == mk_simvalue(word_sub(src1val.val, src2val.val))
    IN CASE is_undefined(src1val) \/ is_undefined(src2val) ->
                Writes(simUndefinedDW)
         [] OTHER ->
            IF is_symbol(src1val) \/ is_symbol(src2val)
            THEN Raises("CHBSymbolicExpression")
            ELSE IF is_base_address(src1val) /\ is_base_address(src2val)
            THEN (IF src1val.base = src2val.base THEN Writes(diff)
                  ELSE Writes(simUndefinedDW))
            ELSE IF is_stack_address(src1val) /\ is_stack_address(src2val)
            THEN Writes(diff)
            ELSE IF is_stack_address(src1val) /\ is_literal(src2val)
            THEN Writes(add_offset(src1val,
                                   word_sub(ToBytes(0, WordBytes),
                                            src2val.val)))
            ELSE IF is_global_address(src1val) /\ is_global_address(src2val)
            THEN Writes(diff)
            ELSE IF is_global_address(src1val) /\ is_literal(src2val)
            THEN Writes(diff)
            ELSE IF is_literal(src1val) /\ is_literal(src2val)
            THEN Writes(diff)
            ELSE Writes(simUndefinedDW)

\* X86RotateRight.simulate: the result computed from the operand values
ror_result(srcval, dstval) ==
    IF is_literal(dstval) /\ is_literal(srcval)
    THEN Writes(bitwise_ror(dstval, srcval))
    ELSE Raises("CHBSimError")

\* SU.simassign: the trace string of an assignment
simassign(lhs, result, intermediates) ==
    [kind |-> "str", lhs |-> lhs, rhs |-> result,
     intermediates |-> intermediates]

\* simstate.set on the operand location r
simstate_set(st, r, v) == [st EXCEPT ![r] = v, !.writes = @ + 1]

\* simstate.increment_program_counter
increment_program_counter(st) == [st EXCEPT !.pc = @ + 1]

\* one more instruction may be simulated in this run
SimEnabled == simstate.pc < MaxSimSteps /\ simstate.writes < MaxSimSteps

Simulate_addu ==
    LET r == addu_result(simstate.a, simstate.b)
    IN /\ SimEnabled
       /\ simstate' = IF r.raises THEN simstate
                      ELSE increment_program_counter(
                               simstate_set(simstate, "d", r.result))
       /\ out' = IF r.raises THEN Raised("addu", "simulate", r.exception)
                 ELSE Returned("addu", "simulate",
                               simassign("d", r.result,
                                         << sim_str(simstate.a),
                                            sim_str(simstate.b) >>))
       /\ UNCHANGED << instructions, ixval, xdata, astree, lvars, be1, be2,
                       ivars,
                       fvars, rvars >>

Simulate_subu ==
    LET r == subu_result(simstate.a, simstate.b)
    IN /\ SimEnabled
       /\ simstate' = IF r.raises THEN simstate
                      ELSE increment_program_counter(
                               simstate_set(simstate, "d", r.result))
       /\ out' = IF r.raises THEN Raised("subu", "simulate", r.exception)
                 ELSE Returned("subu", "simulate",
                               simassign("d", r.result,
                                         << sim_str(simstate.a),
                                            sim_str(simstate.b) >>))
       /\ UNCHANGED << instructions, ixval, xdata, astree, lvars, be1, be2,
                       ivars,
                       fvars, rvars >>

Simulate_ror ==
    LET r == ror_result(simstate.b, simstate.a)
        written == simstate_set(simstate, "a", r.result)
        count_positive == simstate.b.val # ToBytes(0, WordBytes)
        count_one == simstate.b.val = ToBytes(1, WordBytes)
        msb == word_bit(r.result.val, 8 * WordBytes - 1)
        msb2 == word_bit(r.result.val, 8 * WordBytes - 2)
    IN /\ SimEnabled
       /\ simstate' =
              IF r.raises THEN simstate
              ELSE [written EXCEPT
                       !.CF = IF count_positive THEN msb = 1 ELSE @,
                       !.OF = IF count_positive /\ count_one
                              THEN msb # msb2 ELSE @]
       /\ out' = IF r.raises THEN Raised("ror", "simulate", r.exception)
                 ELSE Returned("ror", "simulate", None)
       /\ UNCHANGED << instructions, ixval, xdata, astree, lvars, be1, be2,
                       ivars,
                       fvars, rvars >>

\* a state before any instruction is simulated, with the operands a and b
SimStart(a, b) ==
    [a |-> a, b |-> b, d |-> simUndefinedDW, pc |-> 0, writes |-> 0,
     CF |-> FALSE, OF |-> FALSE]

\* both operands zero
SimDefault ==
    simstate = SimStart(mk_simvalue(ToBytes(0, WordBytes)),
                        mk_simvalue(ToBytes(0, WordBytes)))

(***************************************************************************)
(* Lowering of variables (XXprUtil)                                        *)
(***************************************************************************)
\* the argument locations: the argument registers R0 and R1 are locations
\* 0 and 1, and the first stack-passed argument is location 4
ArgLocs == {0, 1, 4}

\* VInitialRegisterValue.argument_index
argument_index(vconstvar) == IF vconstvar.register = "R0" THEN 0 ELSE 1

\* an lvalue node of the given kind
Lval(kind, name, num) == [kind |-> kind, name |-> name, num |-> num]

\* astree.mk_stack_variable_lval
mk_stack_variable_lval(off) == Lval("stackvar", "", off)

\* astree.mk_named_lval
mk_named_lval(name) == Lval("named", name, 0)

\* astree.mk_register_variable_lval
mk_register_variable_lval(name) == Lval("register", name, 0)

\* astree.mk_formal_lval
mk_formal_lval(formal) == Lval("formal", "", formal)

\* astree.mk_temp_lval
mk_temp_lval == Lval("tmp", "", 0)

\* astree.mk_vinfo_lval
mk_vinfo_lval(gvinfo) == Lval("vinfo", gvinfo, 0)

\* astree.mk_returnval_variable_lval
mk_returnval_variable_lval(callsite) == Lval("returnval", callsite, 0)

\* astree.function_argument: the lvalues of the formal at an argument
\* location, none when the function declares no formal there
function_argument(argindex) ==
    IF argindex \in DOMAIN formals /\ formals[argindex] # 0
    THEN << mk_formal_lval(formals[argindex]) >>
    ELSE << >>

\* formal.arglocs: the locations the formal occupies
arglocs(formal) == { l \in DOMAIN formals : formals[l] = formal }

\* astree.get_formal_locindices: the formal at an argument location and the
\* location's index among the formal's locations; formal 0 stands for the
\* error raised when no formal occupies the location
get_formal_locindices(argindex) ==
    [formal |-> formals[argindex], locindices |-> {argindex}]

\* astree.globalsymboltable.global_variable_name: address 0 has a name
global_variable_name(gaddr) == IF gaddr = 0 THEN "gvar" ELSE ""

\* str() of a memory offset
offset_str(voffset) ==
    IF voffset.is_constant_value_offset THEN ToString(voffset.offsetvalue)
    ELSE "?"

\* str() of a variable
xv_str(xv) ==
    CASE xv.kind = "register" -> xv.register
      [] xv.kind = "other" -> xv.name
      [] OTHER -> xv.kind

\* lvalues returned, or the exception raised instead
Lvals(l) == [raises |-> FALSE, lvals |-> l]

LvalsError == [raises |-> TRUE, lvals |-> << >>]

stack_variable_to_ast_lvals_single(voffset, size) ==
    IF voffset.is_constant_value_offset
    THEN Lvals(<< mk_stack_variable_lval(voffset.offsetvalue) >>)
    ELSE Lvals(<< mk_named_lval("stack: " \o offset_str(voffset)) >>)

stack_variable_to_ast_lvals(voffset, size) ==
    IF voffset.is_constant_value_offset
    THEN IF size = 2
         THEN Lvals(<< mk_stack_variable_lval(voffset.offsetvalue),
                       mk_stack_variable_lval(voffset.offsetvalue + 1) >>)
         ELSE Lvals(<< mk_stack_variable_lval(voffset.offsetvalue) >>)
    ELSE Lvals(<< mk_named_lval("stack: " \o offset_str(voffset)) >>)

global_variable_to_ast_lvals(voffset) ==
    IF voffset.is_constant_value_offset
    THEN IF global_variable_name(voffset.offsetvalue) # ""
         THEN Lvals(<< mk_vinfo_lval(
                           global_variable_name(voffset.offsetvalue)) >>)
         ELSE Lvals(<< mk_named_lval(
                           "gv_" \o ToString(voffset.offsetvalue)) >>)
    ELSE Lvals(<< mk_named_lval("gv_" \o offset_str(voffset)) >>)

vinitregister_value_to_ast_lvals(vconstvar) ==
    IF vconstvar.is_argument_value
    THEN IF Len(function_argument(argument_index(vconstvar))) > 0
         THEN Lvals(function_argument(argument_index(vconstvar)))
         ELSE Lvals(<< mk_register_variable_lval(
                           vconstvar.register \o "_in") >>)
    ELSE IF vconstvar.register = "SP"
    THEN Lvals(<< mk_register_variable_lval("base_sp") >>)
    ELSE Lvals(<< mk_register_variable_lval(vconstvar.register \o "_in") >>)

vinitregister_value_list_to_ast_lvals(vconstvars) ==
    LET n == Len(vconstvars)
        all_arguments == \A i \in 1 .. n : vconstvars[i].is_argument_value
        found(i) == get_formal_locindices(argument_index(vconstvars[i]))
        formal_argindices == { found(i).formal : i \in 1 .. n }
        formal_locindices == UNION { found(i).locindices : i \in 1 .. n }
        fallback ==
            Lvals([i \in 1 .. n |->
                      mk_register_variable_lval(vconstvars[i].register)])
    IN IF all_arguments
       THEN IF \E i \in 1 .. n : found(i).formal = 0
            THEN LvalsError
            ELSE IF /\ Cardinality(formal_argindices) = 1
                    /\ Cardinality(formal_locindices)
                           = Cardinality(arglocs(found(n).formal))
            THEN Lvals(<< mk_formal_lval(found(n).formal) >>)
            ELSE fallback
       ELSE fallback

vfunctionreturn_value_to_ast_lvals(vconstvar) ==
    Lvals(<< mk_returnval_variable_lval(vconstvar.callsite) >>)

\* astree.mk_lval(baselval.lhost, astree.mk_scalar_index_offset(index)): the
\* lvalue at an index of a base lvalue whose type is not known
mk_lval(baselval, index) == [baselval EXCEPT !.kind = "indexed", !.num = index]

RECURSIVE xvariable_to_ast_lvals(_, _)
basevar_variable_to_ast_lvals(basevar, voffset, size) ==
    LET baselvals == xvariable_to_ast_lvals(basevar, 4)
        named ==
            Lvals(<< mk_named_lval(xv_str(basevar) \o offset_str(voffset)) >>)
    IN IF voffset.is_constant_value_offset
       THEN IF baselvals.raises \/ Len(baselvals.lvals) # 1
            THEN LvalsError
            ELSE Lvals(<< mk_lval(baselvals.lvals[1], voffset.offsetvalue) >>)
       ELSE named

vmemory_variable_to_ast_lvals(xvmem, size) ==
    CASE xvmem.base = "local_stack_frame" ->
             stack_variable_to_ast_lvals(xvmem.offset, size)
      [] xvmem.base = "basevar" ->
             basevar_variable_to_ast_lvals(xvmem.basevar, xvmem.offset, size)
      [] xvmem.base = "global" ->
             global_variable_to_ast_lvals(xvmem.offset)
      [] OTHER -> Lvals(<< mk_named_lval(xv_str(xvmem)) >>)

vinitmemory_value_to_ast_lvals(vconstvar) ==
    LET xvar == vconstvar.variable
    IN IF /\ xvar.kind = "memory"
          /\ xvar.base = "local_stack_frame"
          /\ xvar.offset.is_constant_value_offset
          /\ xvar.offset.offsetvalue >= 0
          /\ xvar.offset.offsetvalue % 4 = 0
       THEN Lvals(function_argument(4 + (xvar.offset.offsetvalue \div 4)))
       ELSE xvariable_to_ast_lvals(xvar, 4)

vauxiliary_variable_to_ast_lvals(xvaux, size) ==
    CASE xvaux.auxvar.kind = "initial_register_value" ->
             vinitregister_value_to_ast_lvals(xvaux.auxvar)
      [] xvaux.auxvar.kind = "initial_memory_value" ->
             vinitmemory_value_to_ast_lvals(xvaux.auxvar)
      [] xvaux.auxvar.kind = "function_return_value" ->
             vfunctionreturn_value_to_ast_lvals(xvaux.auxvar)
      [] OTHER -> Lvals(<< mk_named_lval(xv_str(xvaux)) >>)

xvariable_to_ast_lvals(xv, size) ==
    CASE xv.kind = "tmp" -> Lvals(<< mk_temp_lval >>)
      [] xv.kind = "register" ->
             IF xv.is_mips_register
             THEN Lvals(<< mk_register_variable_lval(
                               "mips_" \o xv.register) >>)
             ELSE Lvals(<< mk_register_variable_lval(xv_str(xv)) >>)
      [] xv.kind = "memory" -> vmemory_variable_to_ast_lvals(xv, size)
      [] xv.kind = "auxiliary" -> vauxiliary_variable_to_ast_lvals(xv, size)
      [] OTHER -> Lvals(<< mk_named_lval(xv_str(xv)) >>)

vauxiliary_variable_list_to_ast_lvals(xvauxs) ==
    IF \A i \in 1 .. Len(xvauxs) :
           xvauxs[i].auxvar.kind = "initial_register_value"
    THEN vinitregister_value_list_to_ast_lvals(
             [i \in 1 .. Len(xvauxs) |-> xvauxs[i].auxvar])
    ELSE Lvals([i \in 1 .. Len(xvauxs) |->
                   mk_named_lval(xv_str(xvauxs[i]))])

\* sum((xvariable_to_ast_lvals(xv, astree) for xv in xvs), [])
RECURSIVE lvals_sum(_)
lvals_sum(l) ==
    IF l = << >> THEN Lvals(<< >>)
    ELSE LET first == xvariable_to_ast_lvals(Head(l), 4)
             rest == lvals_sum(Tail(l))
         IN IF first.raises \/ rest.raises THEN LvalsError
            ELSE Lvals(first.lvals \o rest.lvals)

xvariable_list_to_ast_lvals(l) ==
    IF \A i \in 1 .. Len(l) : l[i].kind = "auxiliary"
    THEN vauxiliary_variable_list_to_ast_lvals(l)
    ELSE lvals_sum(l)

\* the outcome of a lowering call
Lowered(op, r) ==
    IF r.raises THEN Raised("XU", op, "CHBError")
    ELSE Returned("XU", op, r.lvals)

Call_xvariable_to_ast_lvals ==
    /\ Len(xvs) = 1
    /\ out' = Lowered("xvariable_to_ast_lvals",
                      xvariable_to_ast_lvals(xvs[1], xsize))
    /\ UNCHANGED << ovars, be1, be2, ivars, fvars, rvars >>

Call_xvariable_list_to_ast_lvals ==
    /\ out' = Lowered("xvariable_list_to_ast_lvals",
                      xvariable_list_to_ast_lvals(xvs))
    /\ UNCHANGED << ovars, be1, be2, ivars, fvars, rvars >>

\* a temporary lowered with size 4 in a function without formals
LowerDefault ==
    /\ xvs = << [kind |-> "tmp"] >>
    /\ xsize = 4
    /\ formals = [l \in ArgLocs |-> 0]

(***************************************************************************)
(* StdPESummaries                                                          *)
(*                                                                         *)
(* Names are Python strings: sequences of character codes.  The summary    *)
(* files of the jar file are well-formed.                                  *)
(***************************************************************************)
\* str.lower()
lower(str) ==
    [i \in 1 .. Len(str) |->
        IF str[i] >= 65 /\ str[i] <= 90 THEN str[i] + 32 ELSE str[i]]

\* str.replace('.', '_')
replace_dot(str) ==
    [i \in 1 .. Len(str) |-> IF str[i] = 46 THEN 95 ELSE str[i]]

\* os.sep + fname + '.xml'
xml_suffix(fname) == << 47 >> \o fname \o << 46, 120, 109, 108 >>

\* StdPESummaries._get_filename; the empty name stands for None
get_filename(dll, fname) ==
    LET name1 == replace_dot(lower(dll)) \o xml_suffix(fname)
        name2 == replace_dot(lower(dll)) \o << 95, 100, 108, 108 >>
                 \o xml_suffix(fname)
    IN IF name1 \in filenames THEN name1
       ELSE IF name2 \in filenames THEN name2
       ELSE << >>

\* StdPESummaries.has_summary
has_summary(dll, fname) == get_filename(dll, fname) # << >>

\* the DllSummary object made from the n-th file read
DllSummary(filename, n) == [file |-> filename, object |-> n]

\* StdPESummaries._read_summary: the cache after the summary file was read
read_summary(dll, fname) ==
    [key \in (DOMAIN dllsummaries) \cup { << dll, fname >> } |->
        IF key = << dll, fname >>
        THEN DllSummary(get_filename(dll, fname), Len(reads) + 1)
        ELSE dllsummaries[key]]

\* StdPESummaries.get_summary
get_summary(dll, fname) ==
    IF has_summary(dll, fname)
    THEN /\ dllsummaries' = IF << dll, fname >> \in DOMAIN dllsummaries
                            THEN dllsummaries
                            ELSE read_summary(dll, fname)
         /\ reads' = IF << dll, fname >> \in DOMAIN dllsummaries THEN reads
                     ELSE Append(reads, get_filename(dll, fname))
         /\ out' = Returned("summaries", "get_summary",
                            [dll |-> dll, fname |-> fname,
                             summary |-> dllsummaries'[<< dll, fname >>]])
    ELSE /\ UNCHANGED << dllsummaries, reads >>
         /\ out' = Raised("summaries", "get_summary", "CHBError")

\* the library names "k", "K" and "k.d"
Dlls == { << 107 >>, << 75 >>, << 107, 46, 100 >> }

\* the function name "f"
Fnames == { << 102 >> }

Call_get_summary ==
    /\ \E dll \in Dlls, fname \in Fnames : get_summary(dll, fname)
    /\ UNCHANGED << instructions, ixval, xdata, astree, simstate, xvs, xsize,
                    formals, filenames, be1, be2, ivars, fvars, rvars >>

\* StdPESummaries.__init__ on a jar file with the given file names
StdPESummaries(names) ==
    /\ filenames = names
    /\ dllsummaries = EmptyMap
    /\ reads = << >>

\* an empty jar file
SummariesDefault == StdPESummaries({})

(***************************************************************************)
(* BasicBlock                                                              *)
(***************************************************************************)
\* what an instruction of a block is: is_call_instruction,
\* is_jump_instruction, is_store_instruction, is_load_instruction, or none
InstrClasses == { "call", "jump", "store", "load", "other" }

\* the instruction at address ia of class c
BlockInstr(ia, c) == [iaddr |-> ia, class |-> c]

\* property lastaddr
lastaddr ==
    LET keys == sorted(DOMAIN instructions) IN keys[Len(keys)]

\* property last_instruction
last_instruction ==
    LET keys == sorted(DOMAIN instructions)
    IN instructions[keys[Len(keys)]]

\* the instructions of class c, as call_instructions, jump_instructions,
\* store_instructions and load_instructions list them
class_instructions(c) ==
    LET items == sorted(DOMAIN instructions)
        all == [i \in 1 .. Len(items) |-> instructions[items[i]]]
    IN SelectSeq(all, LAMBDA instr : instr.class = c)

Get_lastaddr ==
    /\ out' = Returned("bb", "lastaddr", lastaddr)
    /\ UNCHANGED << ovars, be1, be2, ivars, fvars, rvars >>

Get_last_instruction ==
    /\ out' = Returned("bb", "last_instruction", last_instruction)
    /\ UNCHANGED << ovars, be1, be2, ivars, fvars, rvars >>

Get_call_instructions ==
    /\ out' = Returned("bb", "call_instructions", class_instructions("call"))
    /\ UNCHANGED << ovars, be1, be2, ivars, fvars, rvars >>

Get_jump_instructions ==
    /\ out' = Returned("bb", "jump_instructions", class_instructions("jump"))
    /\ UNCHANGED << ovars, be1, be2, ivars, fvars, rvars >>

Get_store_instructions ==
    /\ out' = Returned("bb", "store_instructions",
                       class_instructions("store"))
    /\ UNCHANGED << ovars, be1, be2, ivars, fvars, rvars >>

Get_load_instructions ==
    /\ out' = Returned("bb", "load_instructions", class_instructions("load"))
    /\ UNCHANGED << ovars, be1, be2, ivars, fvars, rvars >>

\* a block of one instruction
BlockDefault ==
    instructions = [a \in {hex(AddrLo)} |-> BlockInstr(hex(AddrLo), "other")]

OtherDefault ==
    /\ BlockDefault
    /\ OpcodeDefault
    /\ AstDefault
    /\ SimDefault
    /\ LowerDefault
    /\ SummariesDefault

(***************************************************************************)
(* Specifications                                                          *)
(***************************************************************************)
\* the encoding of the single instruction of a block in the structural runs
DefaultBlock == << << 1 >> >>

\* addresses of basic blocks: one more than a function may have blocks
BlockAddrs == { hex(n) : n \in AddrLo .. (AddrLo + MaxBlocks) }

\* control flow graphs over BlockAddrs: the function address is the address
\* of one of the blocks, the edges connect blocks of the function
Cfgs ==
    UNION { [faddr : B, blocks : { [b \in B |-> DefaultBlock] },
             edges : { E \in SUBSET (B \X B) : Cardinality(E) <= MaxEdges }] :
            B \in { X \in SUBSET BlockAddrs :
                      X # {} /\ Cardinality(X) <= MaxBlocks } }

\* the function fn with every address advanced by d
Moved(fn, d) ==
    [faddr |-> hex(int16(fn.faddr) + d),
     blocks |-> [b \in { hex(int16(a) + d) : a \in DOMAIN fn.blocks }
                   |-> DefaultBlock],
     edges |-> { << hex(int16(e[1]) + d), hex(int16(e[2]) + d) >> :
                 e \in fn.edges }]

\* the function fn with the block at address a now at address c
Relocated(fn, a, c) ==
    LET r(x) == IF x = a THEN c ELSE x
    IN [faddr |-> r(fn.faddr),
        blocks |-> [b \in { r(x) : x \in DOMAIN fn.blocks } |-> DefaultBlock],
        edges |-> { << r(e[1]), r(e[2]) >> : e \in fn.edges }]

\* the versions of fn a patch of one block or one edge produces
Patched(fn) ==
    LET B == DOMAIN fn.blocks
        free == BlockAddrs \ B
    IN  {fn}
        \cup { [fn EXCEPT !.faddr = b] : b \in B }
        \cup { [fn EXCEPT !.blocks = [b \in B \cup {c} |-> DefaultBlock]] :
               c \in free }
        \cup { [fn EXCEPT !.blocks = [b \in B \ {a} |-> DefaultBlock],
                          !.edges = { e \in fn.edges :
                                        e[1] # a /\ e[2] # a }] :
               a \in B \ {fn.faddr} }
        \cup { Relocated(fn, a, c) : a \in B, c \in free }
        \cup { [fn EXCEPT !.edges = fn.edges \cup {e}] : e \in B \X B }
        \cup { [fn EXCEPT !.edges = fn.edges \ {e}] : e \in fn.edges }
        \cup { [fn EXCEPT !.edges = (fn.edges \ {e}) \cup {<< e[1], t >>}] :
               e \in fn.edges, t \in B }

\* the versions of fn in the second binary: fn moved by a constant offset
\* and patched
Versions(fn) ==
    UNION { Patched(Moved(fn, d)) :
            d \in { d \in (0 - MaxBlocks) .. MaxBlocks :
                      \A a \in DOMAIN fn.blocks :
                          hex(int16(a) + d) \in BlockAddrs } }

\* a function of one block at the lowest address with the given instructions
OneBlock(code) ==
    [faddr |-> hex(AddrLo), blocks |-> [b \in {hex(AddrLo)} |-> code],
     edges |-> {}]

InstrDefault ==
    /\ instr1 = [kind |-> "Instruction", iaddr |-> hex(AddrLo),
                 bytestring |-> << 1 >>, annotation |-> "nop"]
    /\ instr2 = None

FunInitCaches ==
    /\ blockmapping = EmptyMap
    /\ blockanalyses = EmptyMap
    /\ cfgmatcher_calls = 0
    /\ cfgmatch = EmptyMap

FunDefault ==
    /\ fn1 = OneBlock(DefaultBlock)
    /\ fn2 = OneBlock(DefaultBlock)
    /\ FunInitCaches

RelInitCaches ==
    /\ functionmapping = EmptyMap
    /\ functionanalyses = EmptyMap
    /\ cg_seed = None
    /\ direct_runs = 0
    /\ cg_runs = 0

RelDefault ==
    /\ app1 = [a \in {hex(AddrLo)} |-> DefaultBlock]
    /\ app2 = [a \in {hex(AddrLo)} |-> DefaultBlock]
    /\ faddrs1 = << hex(AddrLo) >>
    /\ faddrs2 = << hex(AddrLo) >>
    /\ usermapping = EmptyMap
    /\ cgresult = EmptyMap
    /\ RelInitCaches

\* every pair of an instruction and an optional matched instruction
InitInstr ==
    /\ be1 \in BOOLEAN
    /\ be2 \in BOOLEAN
    /\ instr1 \in Instructions
    /\ instr2 \in Instructions \cup {None}
    /\ FunDefault
    /\ RelDefault
    /\ OtherDefault
    /\ out = NoOut

NextInstr ==
    \/ Get_instr2
    \/ Get_is_mapped
    \/ Get_same_address
    \/ Get_ira_is_md5_equal
    \/ Get_has_different_annotation
    \/ Get_changes
    \/ Get_is_changed

SpecInstr == InitInstr /\ [][NextInstr]_vars

\* every control flow graph with each of its versions
InitFun ==
    /\ be1 = FALSE
    /\ be2 = FALSE
    /\ InstrDefault
    /\ fn1 \in Cfgs
    /\ fn2 \in Versions(fn1)
    /\ FunInitCaches
    /\ RelDefault
    /\ OtherDefault
    /\ out = NoOut

\* CfgMatcher.blockmapping: the injective partial maps from blocks of f1 to
\* blocks of f2
MatcherResults(f1, f2) ==
    { m \in UNION { [D -> DOMAIN f2.blocks] : D \in SUBSET DOMAIN f1.blocks } :
        \A a, b \in DOMAIN m : m[a] = m[b] => a = b }

\* every function pair with every result the CfgMatcher can give for it
InitReport ==
    /\ be1 = FALSE
    /\ be2 = FALSE
    /\ InstrDefault
    /\ fn1 \in Cfgs
    /\ fn2 \in Versions(fn1)
    /\ blockmapping = EmptyMap
    /\ blockanalyses = EmptyMap
    /\ cfgmatcher_calls = 0
    /\ cfgmatch \in MatcherResults(fn1, fn2)
    /\ RelDefault
    /\ OtherDefault
    /\ out = NoOut

NextFun ==
    \/ Get_is_structurally_equivalent
    \/ Get_block_mapping
    \/ Get_block_analyses
    \/ Call_blocks_changed
    \/ Call_report_equivalent
    \/ Call_report_cfgmatcher

SpecFun == InitFun /\ [][NextFun]_vars

SpecReport == InitReport /\ [][NextFun]_vars

\* the encodings a function may have after the instruction compared
Extras == { << >>, << instr1.bytestring >>, << instr2.bytestring >> }

\* every pair of encodings, each in a function of one block, in binaries
\* of either byte order
InitMd5 ==
    /\ be1 \in BOOLEAN
    /\ be2 \in BOOLEAN
    /\ instr1 \in { i \in Instructions :
                       i.iaddr = hex(AddrLo + 1) /\ i.annotation = "nop" }
    /\ instr2 \in { i \in Instructions :
                       i.iaddr = hex(AddrLo + 1) /\ i.annotation = "nop" }
    /\ \E x1 \in Extras, x2 \in Extras :
          /\ fn1 = OneBlock(<< instr1.bytestring >> \o x1)
          /\ fn2 = OneBlock(<< instr2.bytestring >> \o x2)
    /\ FunInitCaches
    /\ RelDefault
    /\ OtherDefault
    /\ out = NoOut

NextMd5 ==
    \/ Get_ira_is_md5_equal
    \/ Get_changes
    \/ Get_fra_is_md5_equal
    \/ Call_blocks_changed

SpecMd5 == InitMd5 /\ [][NextMd5]_vars

\* the encoding of a function that differs from DefaultBlock
OtherBlock == << << 2 >> >>

\* the sets of function addresses an application may have
FnSets == { S \in SUBSET Addrs : Cardinality(S) <= MaxFns }

\* a list of the elements of S, in descending order
Listing(S) ==
    LET l == sorted(S) IN [i \in 1 .. Len(l) |-> l[Len(l) + 1 - i]]

\* the partial one-to-one mappings from S to T
Injections(S, T) ==
    UNION { { m \in [D -> T] : \A a, b \in D : a # b => m[a] # m[b] } :
            D \in SUBSET S }

\* the mappings CallgraphMatcher may compute for address lists over S and T;
\* it is not constructed when the lists have the same length
CgResults(S, T) ==
    IF Cardinality(S) = Cardinality(T) THEN { EmptyMap } ELSE Injections(S, T)

\* m extends the mapping seed
Extends(m, seed) ==
    \A a \in DOMAIN seed : a \in DOMAIN m /\ m[a] = seed[a]

\* every pair of function address lists with every user mapping of at most
\* one pair and every matcher result that is empty or completes the user
\* mapping; each application has exactly the listed functions, unchanged
InitMap ==
    /\ be1 = FALSE
    /\ be2 = FALSE
    /\ InstrDefault
    /\ FunDefault
    /\ \E S \in FnSets, T \in FnSets :
          /\ app1 = [a \in S |-> DefaultBlock]
          /\ app2 = [a \in T |-> DefaultBlock]
          /\ faddrs1 = sorted_list(Listing(S))
          /\ faddrs2 = sorted_list(Listing(T))
          /\ usermapping \in { m \in Injections(S, T) :
                                 Cardinality(DOMAIN m) <= 1 }
          /\ cgresult \in { m \in CgResults(S, T) :
                               m = EmptyMap \/ Extends(m, usermapping) }
    /\ RelInitCaches
    /\ OtherDefault
    /\ out = NoOut

\* every pair of applications, the second with changed functions, analysed
\* for all functions or for the functions named to the constructor
InitRel ==
    /\ be1 = FALSE
    /\ be2 = FALSE
    /\ InstrDefault
    /\ FunDefault
    /\ \E S \in FnSets, T \in FnSets :
          /\ app1 = [a \in S |-> DefaultBlock]
          /\ app2 \in [T -> {DefaultBlock, OtherBlock}]
          /\ \E S0 \in SUBSET S, T0 \in SUBSET T :
                LET Sa == IF S0 = {} THEN S ELSE S0
                    Ta == IF T0 = {} THEN T ELSE T0
                IN  /\ faddrs1 = sorted_list(Listing(Sa))
                    /\ faddrs2 = sorted_list(Listing(Ta))
                    /\ cgresult \in CgResults(Sa, Ta)
    /\ usermapping = EmptyMap
    /\ RelInitCaches
    /\ OtherDefault
    /\ out = NoOut

NextRel ==
    \/ Get_function_mapping
    \/ Call_functions_mapped
    \/ Call_functions_added
    \/ Get_function_analyses
    \/ Call_functions_changed
    \/ Call_functions_removed

SpecMap == InitMap /\ [][NextRel]_vars

SpecRel == InitRel /\ [][NextRel]_vars

\* RelationalAnalysis.__init__: the address list kept for the constructor
\* argument arg and the application's function addresses addrs
init_faddrs(arg, addrs) ==
    IF Len(arg) > 0 THEN sorted_list(arg) ELSE sorted_list(addrs)

\* the address lists a caller may pass for an application with functions S
CtorLists(S) == UNION { [1 .. n -> S] : n \in 0 .. MaxFns }

\* every pair of applications with every pair of constructor address lists
\* over their functions, repeated addresses included
InitCtor ==
    /\ be1 = FALSE
    /\ be2 = FALSE
    /\ InstrDefault
    /\ FunDefault
    /\ \E S \in FnSets, T \in FnSets :
          /\ app1 = [a \in S |-> DefaultBlock]
          /\ app2 = [a \in T |-> DefaultBlock]
          /\ \E l1 \in CtorLists(S), l2 \in CtorLists(T) :
                /\ faddrs1 = init_faddrs(l1, Listing(S))
                /\ faddrs2 = init_faddrs(l2, Listing(T))
          /\ cgresult \in { m \in Injections(S, T) :
                               Cardinality(DOMAIN m) <= 1 }
    /\ usermapping = EmptyMap
    /\ RelInitCaches
    /\ OtherDefault
    /\ out = NoOut

\* the operations that depend on the address lists alone
NextCtor ==
    \/ Get_function_mapping
    \/ Call_functions_mapped
    \/ Call_functions_added

SpecCtor == InitCtor /\ [][NextCtor]_vars

\* every non-empty block of at most MaxInstrs instructions
InitBlock ==
    /\ be1 = FALSE
    /\ be2 = FALSE
    /\ InstrDefault
    /\ FunDefault
    /\ RelDefault
    /\ \E S \in { X \in SUBSET Addrs : X # {} /\ Cardinality(X) <= MaxInstrs } :
          \E cls \in [S -> InstrClasses] :
              instructions = [a \in S |-> BlockInstr(a, cls[a])]
    /\ OpcodeDefault
    /\ AstDefault
    /\ SimDefault
    /\ LowerDefault
    /\ SummariesDefault
    /\ out = NoOut

NextBlock ==
    \/ Get_lastaddr
    \/ Get_last_instruction
    \/ Get_call_instructions
    \/ Get_jump_instructions
    \/ Get_store_instructions
    \/ Get_load_instructions

SpecBlock == InitBlock /\ [][NextBlock]_vars

\* every indexed record of at most MaxTags tags and MaxArgs arguments
InitOpcode ==
    /\ be1 = FALSE
    /\ be2 = FALSE
    /\ InstrDefault
    /\ FunDefault
    /\ RelDefault
    /\ BlockDefault
    /\ \E nt \in 1 .. MaxTags, na \in 0 .. MaxArgs :
          ixval = IndexedTableValue(nt, na)
    /\ AstDefault
    /\ SimDefault
    /\ LowerDefault
    /\ SummariesDefault
    /\ out = NoOut

NextOpcode ==
    \/ Construct_UMULL
    \/ Construct_LDR
    \/ Construct_UXTB
    \/ Construct_addu
    \/ Construct_subu
    \/ Construct_ror

SpecOpcode == InitOpcode /\ [][NextOpcode]_vars

\* every instruction to lower: xdata an error value or not, with or without
\* write-back, lowering to at most MaxLvals lvalues and expressions
InitAst ==
    /\ be1 = FALSE
    /\ be2 = FALSE
    /\ InstrDefault
    /\ FunDefault
    /\ RelDefault
    /\ BlockDefault
    /\ OpcodeDefault
    /\ xdata \in [is_ok : BOOLEAN, write_back : BOOLEAN,
                  nlhs : 0 .. MaxLvals, nrhs : 0 .. MaxLvals]
    /\ astree = EmptyAstree
    /\ SimDefault
    /\ LowerDefault
    /\ SummariesDefault
    /\ out = NoOut

NextAst ==
    \/ Call_UMULL_assembly_ast
    \/ Call_UMULL_ast_prov
    \/ Call_LDR_ast_prov
    \/ Call_UXTB_ast_prov

SpecAst == InitAst /\ [][NextAst]_vars

\* the texts of the expressions of an LDR instruction
XprTexts == {"R1_in", "0x10"}

\* xdata of an LDR instruction: the variables lhs, memory variable and,
\* with a base update, the base register; the expressions of the two
\* address registers and the memory value, the right-hand side, the memory
\* address and, as far as present, the condition and the updated address
LDRXData ==
    { [instruction_condition |-> ic, unknown_instruction_condition |-> uc,
       base_update |-> bu,
       vars |-> << lhs, "vmem" >> \o (IF bu THEN << "R1" >> ELSE << >>),
       xprs |-> << "R1", "R2", "xmem", rhs, xaddr >>
                \o (IF ic THEN << c >> ELSE << >>)
                \o (IF bu THEN << inc >> ELSE << >>)] :
          ic \in BOOLEAN, uc \in BOOLEAN, bu \in BOOLEAN,
          lhs \in {"R0", "R3"}, rhs \in XprTexts \cup {"??"},
          xaddr \in XprTexts, c \in {"R2 != 0", "R2 < R3"},
          inc \in {"R1 + 4", "R1 - 4"} }

\* every LDR instruction to annotate: conditional on a known or an unknown
\* condition or unconditional, with or without base update, its memory
\* value resolved or not
InitAnnot ==
    /\ be1 = FALSE
    /\ be2 = FALSE
    /\ InstrDefault
    /\ FunDefault
    /\ RelDefault
    /\ BlockDefault
    /\ OpcodeDefault
    /\ xdata \in { xd \in LDRXData :
                      ~(xd.instruction_condition
                          /\ xd.unknown_instruction_condition) }
    /\ astree = EmptyAstree
    /\ SimDefault
    /\ LowerDefault
    /\ SummariesDefault
    /\ out = NoOut

NextAnnot == Call_LDR_annotation

SpecAnnot == InitAnnot /\ [][NextAnnot]_vars

\* the words 0 .. MaxLit and -MaxLit .. -1
SimWords ==
    { ToBytes(v, WordBytes) : v \in 0 .. MaxLit }
    \cup { word_sub(ToBytes(0, WordBytes), ToBytes(v, WordBytes)) :
              v \in 1 .. MaxLit }

\* the operand values simulated: defined and undefined literals, a symbol,
\* and global, stack and base addresses
SimValues ==
    { mk_simvalue(w) : w \in SimWords }
    \cup { simUndefinedDW, mk_symbol("s") }
    \cup { mk_global_address(w) : w \in SimWords }
    \cup { mk_stack_address(w) : w \in SimWords }
    \cup { mk_base_address(b, w) : b \in {"b1", "b2"}, w \in SimWords }

\* every pair of operand values, before any instruction is simulated
InitSim ==
    /\ be1 = FALSE
    /\ be2 = FALSE
    /\ InstrDefault
    /\ FunDefault
    /\ RelDefault
    /\ BlockDefault
    /\ OpcodeDefault
    /\ AstDefault
    /\ \E a \in SimValues, b \in SimValues : simstate = SimStart(a, b)
    /\ LowerDefault
    /\ SummariesDefault
    /\ out = NoOut

NextSim ==
    \/ Simulate_addu
    \/ Simulate_subu
    \/ Simulate_ror

SpecSim == InitSim /\ [][NextSim]_vars

\* the file names a jar file can hold for the libraries and functions
JarFiles ==
    { replace_dot(lower(dll)) \o tail \o xml_suffix(fname) :
          dll \in Dlls, tail \in { << >>, << 95, 100, 108, 108 >> },
          fname \in Fnames }

\* every jar file
InitSummaries ==
    /\ be1 = FALSE
    /\ be2 = FALSE
    /\ InstrDefault
    /\ FunDefault
    /\ RelDefault
    /\ BlockDefault
    /\ OpcodeDefault
    /\ AstDefault
    /\ SimDefault
    /\ LowerDefault
    /\ \E names \in SUBSET JarFiles : StdPESummaries(names)
    /\ out = NoOut

NextSummaries == Call_get_summary

SpecSummaries == InitSummaries /\ [][NextSummaries]_vars

\* constant offsets -1 .. MaxOffset and a non-constant offset
Offsets ==
    { [is_constant_value_offset |-> TRUE, offsetvalue |-> k] :
          k \in -1 .. MaxOffset }
    \cup { [is_constant_value_offset |-> FALSE, offsetvalue |-> 0] }

\* a memory variable
MemoryVariable(base, basevar, voffset) ==
    [kind |-> "memory", base |-> base, basevar |-> basevar,
     offset |-> voffset]

\* an auxiliary variable
AuxiliaryVariable(auxvar) == [kind |-> "auxiliary", auxvar |-> auxvar]

\* initial values of the argument registers R0 and R1, of R4 and of SP
InitialRegisterValues ==
    { [kind |-> "initial_register_value", register |-> r,
       is_argument_value |-> b] : r \in {"R0", "R1"}, b \in BOOLEAN }
    \cup { [kind |-> "initial_register_value", register |-> r,
            is_argument_value |-> FALSE] : r \in {"R4", "SP"} }

\* variables without a variable inside
XVars0 ==
    { [kind |-> "tmp"], [kind |-> "other", name |-> "v"],
      [kind |-> "register", register |-> "R0", is_mips_register |-> FALSE],
      [kind |-> "register", register |-> "a0", is_mips_register |-> TRUE] }
    \cup { MemoryVariable(b, [kind |-> "tmp"], o) :
              b \in {"local_stack_frame", "global", "other"}, o \in Offsets }
    \cup { AuxiliaryVariable(a) : a \in InitialRegisterValues }
    \cup { AuxiliaryVariable([kind |-> "function_return_value",
                              callsite |-> "cs"]),
           AuxiliaryVariable([kind |-> "other"]) }

\* initial memory values of the given variables
InitialMemoryValues(vs) ==
    { AuxiliaryVariable([kind |-> "initial_memory_value", variable |-> v]) :
          v \in vs }

\* variables on a base variable, at offset 0 and at a non-constant offset
BasevarVariables(vs) ==
    { MemoryVariable("basevar", v,
                     [is_constant_value_offset |-> c, offsetvalue |-> 0]) :
          v \in vs, c \in BOOLEAN }

\* the variables lowered
XVars ==
    XVars0 \cup InitialMemoryValues(XVars0)
    \cup BasevarVariables(XVars0 \cup InitialMemoryValues(XVars0))

\* the variables lowered in lists
ListVars ==
    { AuxiliaryVariable(a) : a \in InitialRegisterValues }
    \cup { [kind |-> "tmp"], AuxiliaryVariable([kind |-> "other"]) }

\* every variable with every access size, and every list of up to MaxVars
\* variables, in a function with every assignment of formals to locations
InitLower ==
    /\ be1 = FALSE
    /\ be2 = FALSE
    /\ InstrDefault
    /\ FunDefault
    /\ RelDefault
    /\ BlockDefault
    /\ OpcodeDefault
    /\ AstDefault
    /\ SimDefault
    /\ SummariesDefault
    /\ formals \in [ArgLocs -> 0 .. MaxFormals]
    /\ \/ /\ xvs \in { << v >> : v \in XVars }
          /\ xsize \in {1, 2, 4}
       \/ /\ \E n \in 2 .. MaxVars : xvs \in [1 .. n -> ListVars]
          /\ xsize = 4
    /\ out = NoOut

NextLower ==
    \/ Call_xvariable_to_ast_lvals
    \/ Call_xvariable_list_to_ast_lvals

SpecLower == InitLower /\ [][NextLower]_vars

(***************************************************************************)
(* Properties                                                              *)
(***************************************************************************)
\* C1: an instruction relational analysis without a second instruction
\* reports is_mapped false, is_changed true, is_md5_equal and same_address
\* false, and fails with CHBError when instr2 is requested.
C1_Unmapped ==
    (instr2 = None /\ out.obj = "ira") =>
        /\ (out.op = "is_mapped" => out.val = FALSE)
        /\ (out.op = "is_changed" => out.val = TRUE)
        /\ (out.op = "is_md5_equal" => out.val = FALSE)
        /\ (out.op = "same_address" => out.val = FALSE)
        /\ (out.op = "instr2" => (out.raised /\ out.val = "CHBError"))

C1_Witness ==
    instr2 = None /\ out.obj = "ira" /\ out.op = "instr2" /\ out.raised

\* C2: for a mapped pair, changes is a duplicate-free subset of
\* {address, bytes, semantics} holding "address" iff the addresses differ,
\* "bytes" iff the endianness-normalized hashes differ and "semantics" iff
\* the annotations differ; is_changed is true iff changes is non-empty.
C2_Changes ==
    (instr2 # None /\ out.obj = "ira") =>
        LET addrdiff == instr1.iaddr # instr2.iaddr
            hash2 == IF be1 = be2 THEN Digest(instr2.bytestring)
                     ELSE Digest(rev_bytestring(instr2.bytestring))
            bytediff == Digest(instr1.bytestring) # hash2
            semdiff == instr1.annotation # instr2.annotation
        IN  /\ (out.op = "changes" =>
                  /\ Len(out.val) = Cardinality(Range(out.val))
                  /\ Range(out.val) \subseteq {"address", "bytes", "semantics"}
                  /\ ("address" \in Range(out.val)) <=> addrdiff
                  /\ ("bytes" \in Range(out.val)) <=> bytediff
                  /\ ("semantics" \in Range(out.val)) <=> semdiff)
            /\ (out.op = "is_changed" =>
                  (out.val <=> (addrdiff \/ bytediff \/ semdiff)))

C2_Witness ==
    /\ instr2 # None
    /\ out.obj = "ira"
    /\ out.op = "changes"
    /\ out.val = << "semantics" >>

\* C3: is_md5_equal compares md5 with md5 when the binaries have the same
\* byte order and md5 with rev_md5 otherwise, for instructions and for
\* functions; with opposite byte order byte-reversed encodings are equal and
\* identical encodings are not, unless the encoding is a palindrome.
C3_EndianMd5 ==
    LET b1 == instr1.bytestring
        b2 == instr2.bytestring
        reversal == /\ Len(b1) = Len(b2)
                    /\ \A i \in 1 .. Len(b1) : b2[i] = b1[Len(b1) + 1 - i]
        palindrome == \A i \in 1 .. Len(b1) : b1[i] = b1[Len(b1) + 1 - i]
    IN  /\ (out.obj = "ira" /\ out.op = "is_md5_equal" /\ instr2 # None) =>
              /\ (be1 = be2 =>
                    (out.val <=> (instr_md5(instr1) = instr_md5(instr2))))
              /\ (be1 # be2 =>
                    (out.val <=> (instr_md5(instr1) = instr_rev_md5(instr2))))
              /\ ((be1 # be2 /\ reversal) => out.val = TRUE)
              /\ ((be1 # be2 /\ b1 = b2 /\ ~palindrome) => out.val = FALSE)
        /\ (out.obj = "fra" /\ out.op = "is_md5_equal") =>
              /\ (be1 = be2 => (out.val <=> (fn_md5(fn1) = fn_md5(fn2))))
              /\ (be1 # be2 => (out.val <=> (fn_md5(fn1) = fn_rev_md5(fn2))))

C3_Witness ==
    /\ be1 # be2
    /\ out.obj = "ira"
    /\ out.op = "is_md5_equal"
    /\ instr1.bytestring # instr2.bytestring
    /\ instr2.bytestring = rev_bytestring(instr1.bytestring)
    /\ out.val = TRUE

\* numeric block addresses of a function
BlockNums(fn) == { int16(b) : b \in DOMAIN fn.blocks }

\* numeric edges of a function
EdgeNums(fn) == { << int16(e[1]), int16(e[2]) >> : e \in fn.edges }

\* address(B) - address(A)
FnShift == int16(fn2.faddr) - int16(fn1.faddr)

\* C4: is_structurally_equivalent is true iff block counts and edge counts
\* are equal, B's block addresses shifted by -offset are exactly A's block
\* addresses, and B's edges shifted by -offset are exactly A's edges.
C4_StructEquivIff ==
    (out.obj = "fra" /\ out.op = "is_structurally_equivalent") =>
        (out.val <=>
            /\ Cardinality(DOMAIN fn1.blocks) = Cardinality(DOMAIN fn2.blocks)
            /\ Cardinality(fn1.edges) = Cardinality(fn2.edges)
            /\ { n - FnShift : n \in BlockNums(fn2) } = BlockNums(fn1)
            /\ { << e[1] - FnShift, e[2] - FnShift >> : e \in EdgeNums(fn2) }
               = EdgeNums(fn1))

C4_Witness ==
    /\ out.obj = "fra"
    /\ out.op = "is_structurally_equivalent"
    /\ out.val = FALSE
    /\ FnShift # 0
    /\ Cardinality(fn1.edges) = Cardinality(fn2.edges)
    /\ { n - FnShift : n \in BlockNums(fn2) } = BlockNums(fn1)
    /\ fn1.edges # {}

\* B is A with every address advanced by FnShift
ShiftedCopy ==
    /\ BlockNums(fn2) = { n + FnShift : n \in BlockNums(fn1) }
    /\ EdgeNums(fn2) = { << e[1] + FnShift, e[2] + FnShift >> :
                          e \in EdgeNums(fn1) }

C6_MatcherOnce ==
    (\/ Cardinality(DOMAIN fn1.blocks) # Cardinality(DOMAIN fn2.blocks)
     \/ Cardinality(fn1.edges) # Cardinality(fn2.edges)) =>
        /\ (out.obj = "fra" /\ out.op = "is_structurally_equivalent")
              => out.val = FALSE
        /\ (out.obj = "fra" /\ out.op = "report") => cfgmatcher_calls = 1

C8_DirectByRank ==
    (/\ Len(faddrs1) = Len(faddrs2)
     /\ out.obj = "ra"
     /\ out.op = "function_mapping") =>
        LET only1 == Range(faddrs1) \ Range(faddrs2)
            only2 == Range(faddrs2) \ Range(faddrs1)
            rank(a, S) == Cardinality({ x \in S : int16(x) < int16(a) })
        IN  /\ DOMAIN out.val = Range(faddrs1)
            /\ \A a \in Range(faddrs1) \cap Range(faddrs2) : out.val[a] = a
            /\ \A a \in only1 :
                  /\ out.val[a] \in only2
                  /\ rank(out.val[a], only2) = rank(a, only1)

\* C9: over any sequence of accesses the function mapping is computed by
\* one strategy that runs at most once, also when the mapping is empty.
C9_ComputedOnce == direct_runs + cg_runs <= 1

\* C10: functions_changed() holds every function whose analysis reports
\* moved or a different hash, and every address that is a key of md5s1 and
\* of md5s2 with different hash values.
C10_ChangedComplete ==
    (out.obj = "ra" /\ out.op = "functions_changed" /\ ~out.raised) =>
        /\ \A a \in DOMAIN functionanalyses :
              fra_changed(functionanalyses[a]) => a \in Range(out.val)
        /\ \A a \in (DOMAIN md5s1) \cap (DOMAIN md5s2) :
              md5s1[a] # md5s2[a] => a \in Range(out.val)

\* C11: functions_changed() completes and returns a list without raising,
\* for every function mapping and every pair of hash tables, also when there
\* is no function analysis and when an address of md5s1 is not in md5s2.
C11_ChangedNeverRaises ==
    (out.obj = "ra" /\ out.op = "functions_changed") => ~out.raised

\* C12: a functions_removed() call that returns, returns exactly the
\* addresses of faddrs1 that are not keys of function_mapping.
C12_RemovedExact ==
    (out.obj = "ra" /\ out.op = "functions_removed" /\ ~out.raised) =>
        Range(out.val) = Range(faddrs1) \ DOMAIN functionmapping

\* l is in ascending string order without repeated elements
StrictlySorted(l) ==
    \A i, j \in 1 .. Len(l) : i < j => StrLess(l[i], l[j])

\* C13: faddrs1 and faddrs2 are sorted and hold no duplicates, so that
\* fncount1 == fncount2 compares numbers of distinct functions.
C13_SortedDeduped ==
    /\ StrictlySorted(faddrs1)
    /\ StrictlySorted(faddrs2)
    /\ (fncount1 = fncount2) <=>
          (Cardinality(Range(faddrs1)) = Cardinality(Range(faddrs2)))

\* the addresses of the block in instruction address order
AddressOrder ==
    LET RECURSIVE asc(_)
        asc(S) == IF S = {} THEN << >>
                  ELSE LET m == CHOOSE x \in S :
                                  \A y \in S : int16(x) <= int16(y)
                       IN << m >> \o asc(S \ {m})
    IN asc(DOMAIN instructions)

\* C14: lastaddr is the numerically greatest instruction address of the
\* block, last_instruction is the instruction stored there, and the call,
\* jump, store and load views list exactly the instructions of their kind
\* in instruction address order.
C14_LastAddrMax ==
    LET order == AddressOrder
        all == [i \in 1 .. Len(order) |-> instructions[order[i]]]
        view(c) == SelectSeq(all, LAMBDA instr : instr.class = c)
    IN  out.obj = "bb" =>
          /\ (out.op = "lastaddr" => out.val = order[Len(order)])
          /\ (out.op = "last_instruction" =>
                out.val = instructions[order[Len(order)]])
          /\ (out.op = "call_instructions" => out.val = view("call"))
          /\ (out.op = "jump_instructions" => out.val = view("jump"))
          /\ (out.op = "store_instructions" => out.val = view("store"))
          /\ (out.op = "load_instructions" => out.val = view("load"))

\* the fixed number of arguments of each mnemonic
Arity ==
    [m \in {"UMULL", "LDR", "UXTB", "addu", "subu", "ror"} |->
        CASE m \in {"UMULL", "LDR"} -> 5
          [] m \in {"UXTB", "addu", "subu"} -> 3
          [] OTHER -> 2]

\* C15: constructing an opcode descriptor fails when the record's argument
\* count is not the mnemonic's arity: no descriptor with a wrong argument
\* count is constructed, for UMULL, LDR, UXTB, addu, subu and ror.
C15_ArityChecked ==
    (out.obj = "opcode" /\ ~out.raised) =>
        Len(out.val.args) = Arity[out.op]

\* C16: with xdata an error value, UMULL ast_prov does not raise, returns
\* an empty high-level list and still returns the complete low-level list:
\* the assignments to RdLo and RdHi.
C16_LowLevelAlways ==
    (out.obj = "UMULL" /\ out.op = "ast_prov" /\ ~xdata.is_ok) =>
        /\ ~out.raised
        /\ out.val[1] = << >>
        /\ Len(out.val[2]) = 2
        /\ out.val[2][1].lhs = ast_lvalue("RdLo")
        /\ out.val[2][2].lhs = ast_lvalue("RdHi")

\* C17: every high-level assignment ast_prov returns is mapped to a
\* low-level assignment of the returned low-level list, its lvalue is
\* mapped to a low-level lvalue, and that lvalue has its def-use and its
\* high-level def-use annotation.
C17_Provenance ==
    (out.op = "ast_prov" /\ ~out.raised) =>
        \A i \in 1 .. Len(out.val[1]) :
            LET hl == out.val[1][i]
            IN  /\ \E j \in 1 .. Len(out.val[2]) :
                      << hl, out.val[2][j] >> \in astree.instr_mapping
                /\ \E m \in astree.lval_mapping : m[1] = hl.lhs
                /\ hl.lhs \in astree.lval_defuses
                /\ hl.lhs \in astree.lval_defuses_high

\* operand values of the multiplication: 0, 1, 2, 0x10000 and 0xffffffff
C20_Words ==
    { ToBytes(0, WordBytes), ToBytes(1, WordBytes), ToBytes(2, WordBytes),
      ToBytes(65536, WordBytes), masklo_value }

\* whether the assignments lo and hi leave the low word of a * b in RdLo
\* and its high word in RdHi
C20_Halves(lo, hi, a, b) ==
    /\ lo.lhs = ast_lvalue("RdLo")
    /\ hi.lhs = ast_lvalue("RdHi")
    /\ stored(lo.rhs, a, b) = SubSeq(word_mult(a, b), 1, WordBytes)
    /\ stored(hi.rhs, a, b) =
           SubSeq(word_mult(a, b), WordBytes + 1, 2 * WordBytes)

\* C20: the lowering of UMULL, in assembly_ast and in the low-level list
\* of ast_prov, assigns (a * b) mod 2^32 to RdLo and (a * b) >> 32 to RdHi
\* for all operand values a and b; 0xffffffff * 2 gives 0xfffffffe and 1.
C20_FullProduct ==
    /\ word_mult(masklo_value, ToBytes(2, WordBytes))
           = << 254, 255, 255, 255, 1, 0, 0, 0 >>
    /\ (out.obj = "UMULL" /\ out.op = "assembly_ast") =>
           \A a, b \in C20_Words :
               C20_Halves(out.val[1], out.val[2], a, b)
    /\ (out.obj = "UMULL" /\ out.op = "ast_prov" /\ xdata.is_ok) =>
           \A a, b \in C20_Words :
               C20_Halves(out.val[2][1], out.val[2][2], a, b)

\* C18: every simulate call of addu, subu or ror that completes without
\* raising writes the destination operand exactly once, increments the
\* program counter exactly once and returns a trace string.
C18_OneInstructionEffect ==
    [][((Simulate_addu \/ Simulate_subu \/ Simulate_ror) /\ ~out'.raised) =>
          /\ simstate'.writes = simstate.writes + 1
          /\ simstate'.pc = simstate.pc + 1
          /\ out'.val.kind = "str"]_vars

\* C19: when either source operand of addu or subu is a symbol, simulate
\* raises CHBSymbolicExpression and leaves the machine state unchanged,
\* whichever operand is the symbol and whatever the other operand is.
C19_SymbolRaises ==
    [][((Simulate_addu \/ Simulate_subu)
        /\ (is_symbol(simstate.a) \/ is_symbol(simstate.b))) =>
          /\ out'.raised
          /\ out'.val = "CHBSymbolicExpression"
          /\ simstate' = simstate]_vars

\* whether w is a machine word: WordBytes bytes, so a value in [0, 2^32)
IsWord(w) ==
    /\ Len(w) = WordBytes
    /\ \A i \in 1 .. WordBytes : w[i] \in 0 .. ByteRange - 1

\* the operand pairs whose difference subu computes: two literals, two
\* stack addresses, two global addresses or two addresses on one base
C28_Subtractable(a, b) ==
    /\ is_defined(a)
    /\ is_defined(b)
    /\ \/ is_literal(a) /\ is_literal(b)
       \/ is_stack_address(a) /\ is_stack_address(b)
       \/ is_global_address(a) /\ is_global_address(b)
       \/ is_base_address(a) /\ is_base_address(b) /\ a.base = b.base

\* C28: subu simulate on non-symbolic operands writes (a - b) mod 2^32 for
\* two literals, two stack addresses, two global addresses or two base
\* addresses with the same base, a value in [0, 2^32); it writes the
\* undefined value for two base addresses with different bases and when
\* either operand is undefined.
C28_SubuModular ==
    (/\ out.obj = "subu"
     /\ out.op = "simulate"
     /\ ~is_symbol(simstate.a)
     /\ ~is_symbol(simstate.b)) =>
        /\ ~out.raised
        /\ C28_Subtractable(simstate.a, simstate.b) =>
              /\ is_literal(simstate.d)
              /\ is_defined(simstate.d)
              /\ IsWord(simstate.d.val)
              /\ word_add(simstate.d.val, simstate.b.val) = simstate.a.val
        /\ (/\ is_base_address(simstate.a)
            /\ is_base_address(simstate.b)
            /\ simstate.a.base # simstate.b.base) =>
              simstate.d = simUndefinedDW
        /\ (is_undefined(simstate.a) \/ is_undefined(simstate.b)) =>
              simstate.d = simUndefinedDW

C28_Witness ==
    /\ out.obj = "subu"
    /\ out.op = "simulate"
    /\ ~out.raised
    /\ simstate.a = mk_simvalue(ToBytes(0, WordBytes))
    /\ simstate.b = mk_simvalue(ToBytes(1, WordBytes))
    /\ simstate.d = mk_simvalue(masklo_value)

\* C29: the value addu simulate writes to rd does not depend on the order
\* of the source operands: with the operands exchanged the call raises
\* exactly when this call raised, and otherwise writes the same result.
C29_AdduCommutes ==
    (out.obj = "addu" /\ out.op = "simulate") =>
        LET exchanged == addu_result(simstate.b, simstate.a)
        IN /\ out.raised <=> exchanged.raises
           /\ ~out.raised => simstate.d = exchanged.result

\* C25: block_mapping, block_analyses and blocks_changed return, in every
\* reachable state, what they return on a fresh analysis of the same
\* function pair: report() calls do not change their results.
C25_ObserversPure ==
    LET bm == block_mapping(EmptyMap)
        ba == block_analyses(EmptyMap, bm)
    IN /\ (out.obj = "fra" /\ out.op = "block_mapping") => out.val = bm
       /\ (out.obj = "fra" /\ out.op = "block_analyses") => out.val = ba
       /\ (out.obj = "fra" /\ out.op = "blocks_changed") =>
              out.val = blocks_changed(ba)

\* C27: in the CfgMatcher branch of report() every block of function A
\* produces exactly one line: a matched block a row with its address, its
\* moved status ("no" when mapped to the same address) and its md5 status,
\* an unmatched block a line with only its address; the node count is the
\* number of matched blocks over the number of blocks of A.
C27_OneLinePerBlock ==
    (out.obj = "fra" /\ out.op = "report" /\ ~is_structurally_equivalent) =>
        /\ Len(out.val.rows) = Cardinality(DOMAIN basic_blocks1)
        /\ \A b \in DOMAIN basic_blocks1 :
              \E i \in 1 .. Len(out.val.rows) :
                  LET row == out.val.rows[i]
                  IN /\ row.block = b
                     /\ IF b \in DOMAIN cfgmatch
                        THEN /\ DOMAIN row = {"block", "moved", "md5eq"}
                             /\ row.moved = IF cfgmatch[b] = b THEN No
                                            ELSE cfgmatch[b]
                             /\ row.md5eq =
                                    IF bra_is_md5_equal(
                                           BlockRelationalAnalysis(
                                               b, cfgmatch[b]))
                                    THEN "yes" ELSE "no"
                        ELSE DOMAIN row = {"block"}
        /\ out.val.blocksmatched = Cardinality(DOMAIN cfgmatch)
        /\ out.val.blocks1 = Cardinality(DOMAIN basic_blocks1)

\* C26: functions_changed() never lists an address twice: a function its
\* analysis reports as changed is not appended again by the consistency
\* pass over the hash tables.
C26_ChangedNoDuplicates ==
    (out.obj = "ra" /\ out.op = "functions_changed" /\ ~out.raised) =>
        \A i, j \in 1 .. Len(out.val) : out.val[i] = out.val[j] => i = j

\* C30: over any sequence of get_summary calls the summary file of a
\* library function is read at most once, and a call returns the cached
\* summary object of that file, also when the library is named with a
\* different letter case; a call for a function without a summary file
\* raises and leaves the cache unchanged.
C30_ReadOnce ==
    [][Call_get_summary =>
          /\ \A i, j \in 1 .. Len(reads') : reads'[i] = reads'[j] => i = j
          /\ ~out'.raised =>
                 \A key \in DOMAIN dllsummaries' :
                     dllsummaries'[key].file = out'.val.summary.file =>
                         dllsummaries'[key] = out'.val.summary
          /\ \A dll \in Dlls, fname \in Fnames :
                 (get_summary(dll, fname) /\ ~has_summary(dll, fname)) =>
                     /\ out'.raised
                     /\ dllsummaries' = dllsummaries]_vars

\* the variable lowered is a memory variable of the local stack frame
C21_StackVariable ==
    /\ out.obj = "XU"
    /\ out.op = "xvariable_to_ast_lvals"
    /\ xvs[1].kind = "memory"
    /\ xvs[1].base = "local_stack_frame"

\* C21: a local-stack-frame memory variable with constant offset k lowers,
\* for access size 2, to the two stack-slot lvalues at k and k + 1 in that
\* order, and for every other size to the one stack-slot lvalue at k; with
\* a non-constant offset it lowers to one named placeholder lvalue.
C21_StackSlots ==
    C21_StackVariable =>
        /\ ~out.raised
        /\ IF xvs[1].offset.is_constant_value_offset
           THEN IF xsize = 2
                THEN out.val = << Lval("stackvar", "",
                                       xvs[1].offset.offsetvalue),
                                  Lval("stackvar", "",
                                       xvs[1].offset.offsetvalue + 1) >>
                ELSE out.val = << Lval("stackvar", "",
                                       xvs[1].offset.offsetvalue) >>
           ELSE /\ Len(out.val) = 1
                /\ out.val[1].kind = "named"

C21_Witness ==
    /\ C21_StackVariable
    /\ xsize = 2
    /\ xvs[1].offset.is_constant_value_offset
    /\ xvs[1].offset.offsetvalue = MaxOffset
    /\ Len(out.val) = 2

\* the list lowered consists of initial register values, and the function
\* declares a formal at the location of each that is an argument value
C22_RegisterList ==
    /\ out.obj = "XU"
    /\ out.op = "xvariable_list_to_ast_lvals"
    /\ \A i \in 1 .. Len(xvs) :
          /\ xvs[i].kind = "auxiliary"
          /\ xvs[i].auxvar.kind = "initial_register_value"
          /\ xvs[i].auxvar.is_argument_value =>
                 formals[argument_index(xvs[i].auxvar)] # 0

\* the list consists of argument values of one formal that together occupy
\* exactly the formal's locations
C22_WholeFormal ==
    /\ \A i \in 1 .. Len(xvs) : xvs[i].auxvar.is_argument_value
    /\ \A i \in 1 .. Len(xvs) :
          formals[argument_index(xvs[i].auxvar)]
              = formals[argument_index(xvs[1].auxvar)]
    /\ { argument_index(xvs[i].auxvar) : i \in 1 .. Len(xvs) }
           = { l \in ArgLocs : formals[l]
                                  = formals[argument_index(xvs[1].auxvar)] }

\* C22: the list lowering of initial register values returns the single
\* lvalue of a formal if and only if all of them are argument values of
\* one formal and together occupy exactly its locations; in every other
\* case it returns, per variable, the register placeholder <reg>_in.
C22_FormalOrPlaceholders ==
    C22_RegisterList =>
        /\ ~out.raised
        /\ IF C22_WholeFormal
           THEN out.val = << Lval("formal", "",
                                  formals[argument_index(xvs[1].auxvar)]) >>
           ELSE out.val = [i \in 1 .. Len(xvs) |->
                              Lval("register",
                                   xvs[i].auxvar.register \o "_in", 0)]

\* C23: xvariable_to_ast_lvals is total and never empty: for every variable
\* it returns one or more lvalues, also for an initial memory value at a
\* non-negative word-aligned stack offset for which the function declares
\* no formal.
C23_NeverEmpty ==
    (out.obj = "XU" /\ out.op = "xvariable_to_ast_lvals") =>
        /\ ~out.raised
        /\ Len(out.val) >= 1

\* the texts an annotation consists of end with the given texts
C24_EndsWith(a, clause) ==
    /\ Len(a) >= Len(clause)
    /\ SubSeq(a, Len(a) - Len(clause) + 1, Len(a)) = clause

\* C24: the LDR annotation starts with 'if <cond> then ' exactly when the
\* xdata carries an instruction condition, with 'if ? then ' exactly when
\* the condition is unknown, and with no prefix otherwise; it ends with
\* '; <base> := <new address>' exactly when the xdata has a base update,
\* for every right-hand side, and an unresolved right-hand side '??' is
\* rendered as a dereference of the memory address.
C24_PrefixAndBaseUpdate ==
    (out.obj = "LDR" /\ out.op = "annotation") =>
        LET a == out.val
            n == Len(xdata.xprs)
        IN /\ ~out.raised
           /\ xdata.instruction_condition =>
                  SubSeq(a, 1, 3) = << "if ", xdata.xprs[6], " then " >>
           /\ xdata.unknown_instruction_condition =>
                  SubSeq(a, 1, 3) = << "if ", "?", " then " >>
           /\ (a[1] = "if ") <=> (xdata.instruction_condition
                                     \/ xdata.unknown_instruction_condition)
           /\ xdata.base_update =>
                  C24_EndsWith(a, << "; ", xdata.vars[3], " := ",
                                     xdata.xprs[n] >>)
           /\ ~xdata.base_update =>
                  \A i \in 1 .. Len(a) : a[i] # "; "
           /\ xdata.xprs[4] = "??" =>
                  \E i \in 1 .. Len(a) - 2 :
                      SubSeq(a, i, i + 2)
                          = << " := *(", xdata.xprs[5], ")" >>

====
